---- MODULE Spec2Model ----
(***************************************************************************)
(* A model of the fungoid Befunge interpreter: the sparse Program store    *)
(* (src/src/program.rs) and the execution engine (src/src/execution.rs).   *)
(*                                                                         *)
(* Characters are modelled by their Unicode code points (naturals); a      *)
(* program text is a sequence of code points with 10 as the newline.  The  *)
(* stack grows at the end of its sequence, as the Vec it models does.      *)
(* All engines in src/ are constructed with trace = false, so the trace    *)
(* output of step() is not modelled.                                       *)
(***************************************************************************)
EXTENDS Integers, Sequences, FiniteSets, TLC

VARIABLES
    text,         \* the source text the engine's Program was built from
    execution,    \* the ExecutionState record
    pc,           \* the driver: "idle", "run" (inside run()), "panicked"
    last,         \* the last operation: its kind, the state before it, its result,
                  \* and whether run() made it
    run_entry,    \* the terminated flag the current / last run() was called with
    run_steps,    \* step() calls made by the current / last run()
    run_result,   \* what the last run() returned (Pending while none has)
    driver_program,  \* the Program the driver holds: built by new / from_str, changed by set
    puts,         \* history: the cells written since construction, each with the
                  \* last value given for it (by a 'p' step, or by Program::set)
    ide_state     \* the IDEState record of the IDE (as IDEState::new() made it
                  \* while no IDE runs)

vars == <<text, execution, pc, last, run_entry, run_steps, run_result, driver_program, puts,
          ide_state>>

----------------------------------------------------------------------------
(* Bounds of the model *)

\* step() is not called once instruction_count has reached MaxSteps
MaxSteps == 8
\* step() is not called once the output holds MaxOut bytes
MaxOut == 2

----------------------------------------------------------------------------
(* The instruction vocabulary: the characters step() matches on *)

ChQuote == 34
ChUp == 94
ChDown == 118
ChRight == 62
ChLeft == 60
ChRandom == 63
ChHorizontalIf == 95
ChVerticalIf == 124
ChAdd == 43
ChSub == 45
ChMul == 42
ChDiv == 47
ChMod == 37
ChNot == 33
ChGreater == 96
ChDup == 58
ChSwap == 92
ChDiscard == 36
ChOutInt == 46
ChOutChar == 44
ChBridge == 35
ChGet == 103
ChPut == 112
ChInInt == 38
ChInChar == 126
ChEnd == 64
ChZero == 48
ChNine == 57
ChSpace == 32
ChNewline == 10
ChReturn == 13

Directions == {"Up", "Down", "Left", "Right"}

----------------------------------------------------------------------------
(* Conversions *)

\* `v as u8`: an integer (or a char's code point) truncated to its low 8 bits
AsU8(v) == v % 256

\* a faulty TruncDiv: the quotient rounded down
FloorDiv(b, a) == IF a < 0 THEN (-b) \div (-a) ELSE b \div a

\* Rust's integer division: the quotient truncated toward zero (a # 0)
TruncDiv(b, a) ==
    LET q == (IF b < 0 THEN -b ELSE b) \div (IF a < 0 THEN -a ELSE a)
    IN  IF (b < 0) = (a < 0) THEN q ELSE -q

\* Rust's remainder: it has the sign of the dividend (a # 0)
TruncRem(b, a) == b - a * TruncDiv(b, a)

RECURSIVE DecimalDigits(_)
\* the decimal digits of a natural number, as ASCII codes
DecimalDigits(n) ==
    IF n < 10 THEN <<ChZero + n>>
    ELSE Append(DecimalDigits(n \div 10), ChZero + (n % 10))

\* Display for isize: what write!(output, "{}", n) writes
FormatInt(n) == IF n < 0 THEN <<ChSub>> \o DecimalDigits(-n) ELSE DecimalDigits(n)

\* Display for char: the UTF-8 encoding of a char below U+0100
EncodeUtf8(c) == IF c < 128 THEN <<c>> ELSE <<192 + (c \div 64), 128 + (c % 64)>>

----------------------------------------------------------------------------
(* Program: a map from Position <<x, y>> to char; absent cells read as space *)

NewProgram == <<>>

\* a faulty Get: unwrap_or('\0')
GetOrNul(program, pos) == IF pos \in DOMAIN program THEN program[pos] ELSE 0

\* Program::get: unwrap_or(&' ')
Get(program, pos) == IF pos \in DOMAIN program THEN program[pos] ELSE ChSpace

\* a faulty Set: the entry is inserted only when the key is absent
SetIfAbsent(program, pos, c) ==
    [q \in (DOMAIN program) \cup {pos} |->
        IF q \in DOMAIN program THEN program[q] ELSE c]

\* Program::set: HashMap::insert
Set(program, pos, c) ==
    [q \in (DOMAIN program) \cup {pos} |-> IF q = pos THEN c ELSE program[q]]

RECURSIVE SplitTerminator(_, _)
\* the pieces of s between occurrences of sep; no empty piece after a final sep
SplitTerminator(s, sep) ==
    IF s = <<>> THEN <<>>
    ELSE LET hits == {i \in 1..Len(s) : s[i] = sep}
         IN  IF hits = {} THEN <<s>>
             ELSE LET i == CHOOSE j \in hits : \A k \in hits : j <= k
                  IN  <<SubSeq(s, 1, i - 1)>> \o SplitTerminator(SubSeq(s, i + 1, Len(s)), sep)

\* str::lines: split on "\n", a "\r" right before the "\n" belongs to the line
\* ending; so does a "\r" that ends the text, in the standard library before
\* Rust 1.77
Lines(s) ==
    LET raw == SplitTerminator(s, ChNewline)
        strip(l) == IF Len(l) > 0 /\ l[Len(l)] = ChReturn THEN SubSeq(l, 1, Len(l) - 1) ELSE l
    IN  [i \in 1..Len(raw) |-> strip(raw[i])]

\* str::lines since Rust 1.77: a "\r" that ends the text, with no "\n" after
\* it, stays in the last line
LinesKeepingFinalReturn(s) ==
    LET ls == Lines(s)
    IN  IF Len(s) > 0 /\ s[Len(s)] = ChReturn
        THEN [ls EXCEPT ![Len(ls)] = Append(@, ChReturn)]
        ELSE ls

\* a faulty FromLines: Position { x: y, y: x }
FromLinesTransposed(ls) ==
    LET cells == UNION {{<<y - 1, x - 1>> : x \in 1..Len(ls[y])} : y \in 1..Len(ls)}
    IN  [p \in cells |-> ls[p[1] + 1][p[2] + 1]]

\* the loops of Program::from_str: the char at column x of line y goes to
\* Position(x, y)
FromLines(ls) ==
    LET cells == UNION {{<<x - 1, y - 1>> : x \in 1..Len(ls[y])} : y \in 1..Len(ls)}
    IN  [p \in cells |-> ls[p[2] + 1][p[1] + 1]]

\* Program::from_str
FromStr(s) == FromLines(Lines(s))

\* what Program::from_str can build from s, with either standard library
FromStrOutcomes(s) == {FromLines(Lines(s)), FromLines(LinesKeepingFinalReturn(s))}

\* a..=b
RangeInclusive(a, b) == [i \in 1..(b - a + 1) |-> a + i - 1]

\* a faulty CartesianProduct: each outer element is paired with the first
\* inner element only
CartesianProductFirstOnly(outer, inner) ==
    IF inner = <<>> THEN <<>> ELSE [i \in 1..Len(outer) |-> <<outer[i], inner[1]>>]

RECURSIVE CartesianProduct(_, _)
\* Itertools::cartesian_product: every pair, the outer element varying slowest
CartesianProduct(outer, inner) ==
    IF outer = <<>> THEN <<>>
    ELSE [j \in 1..Len(inner) |-> <<Head(outer), inner[j]>>]
            \o CartesianProduct(Tail(outer), inner)

\* a faulty View: the x range is the outer one
ViewColumnMajor(program, upper_left, lower_right) ==
    LET pairs == CartesianProduct(RangeInclusive(upper_left[1], lower_right[1]),
                                  RangeInclusive(upper_left[2], lower_right[2]))
    IN  [k \in 1..Len(pairs) |->
            LET pos == <<pairs[k][1], pairs[k][2]>> IN <<pos, Get(program, pos)>>]

\* Program::view: the (Position, char) pairs of the rows upper_left.y..=lower_right.y,
\* each over the columns upper_left.x..=lower_right.x
View(program, upper_left, lower_right) ==
    LET pairs == CartesianProduct(RangeInclusive(upper_left[2], lower_right[2]),
                                  RangeInclusive(upper_left[1], lower_right[1]))
    IN  [k \in 1..Len(pairs) |->
            LET pos == <<pairs[k][2], pairs[k][1]>> IN <<pos, Get(program, pos)>>]

\* a faulty PositionLess: y is compared first
PositionLessByRow(p, q) == p[2] < q[2] \/ (p[2] = q[2] /\ p[1] < q[1])

\* the derived Ord of Position: x is compared first, then y
PositionLess(p, q) == p[1] < q[1] \/ (p[1] = q[1] /\ p[2] < q[2])

None == [kind |-> "None"]

Some(v) == [kind |-> "Some", value |-> v]

\* Program::extent: keys().minmax()
Extent(program) ==
    LET keys == DOMAIN program
        min  == CHOOSE p \in keys : \A q \in keys : ~PositionLess(q, p)
        max  == CHOOSE p \in keys : \A q \in keys : ~PositionLess(p, q)
    IN  IF keys = {} THEN None
        ELSE IF Cardinality(keys) = 1 THEN LET e == CHOOSE p \in keys : TRUE IN Some(<<e, e>>)
        ELSE Some(<<min, max>>)

----------------------------------------------------------------------------
(* Stack *)

NewStack == <<>>

Push(stack, val) == Append(stack, val)

\* a faulty PopVal: unwrap_or(1)
PopValOne(stack) == IF Len(stack) = 0 THEN 1 ELSE stack[Len(stack)]

\* the value Stack::pop returns
PopVal(stack) == IF Len(stack) = 0 THEN 0 ELSE stack[Len(stack)]

\* the stack Stack::pop leaves
PopRest(stack) == IF Len(stack) = 0 THEN stack ELSE SubSeq(stack, 1, Len(stack) - 1)

----------------------------------------------------------------------------
(* InstructionPointer *)

NewPointer == [position |-> <<0, 0>>, direction |-> "Right"]

\* a faulty MovePointer: y grows upwards
MovePointerYUp(pointer) ==
    LET x == pointer.position[1]
        y == pointer.position[2]
    IN  CASE pointer.direction = "Up"    -> [pointer EXCEPT !.position = <<x, y + 1>>]
          [] pointer.direction = "Down"  -> [pointer EXCEPT !.position = <<x, y - 1>>]
          [] pointer.direction = "Right" -> [pointer EXCEPT !.position = <<x + 1, y>>]
          [] pointer.direction = "Left"  -> [pointer EXCEPT !.position = <<x - 1, y>>]

\* a faulty MovePointer: the pointer is kept from negative coordinates
MovePointerClamped(pointer) ==
    LET x == pointer.position[1]
        y == pointer.position[2]
        AtLeastZero(n) == IF n < 0 THEN 0 ELSE n
    IN  CASE pointer.direction = "Up"    -> [pointer EXCEPT !.position = <<x, AtLeastZero(y - 1)>>]
          [] pointer.direction = "Down"  -> [pointer EXCEPT !.position = <<x, y + 1>>]
          [] pointer.direction = "Right" -> [pointer EXCEPT !.position = <<x + 1, y>>]
          [] pointer.direction = "Left"  -> [pointer EXCEPT !.position = <<AtLeastZero(x - 1), y>>]

\* move_pointer
MovePointer(pointer) ==
    LET x == pointer.position[1]
        y == pointer.position[2]
    IN  CASE pointer.direction = "Up"    -> [pointer EXCEPT !.position = <<x, y - 1>>]
          [] pointer.direction = "Down"  -> [pointer EXCEPT !.position = <<x, y + 1>>]
          [] pointer.direction = "Right" -> [pointer EXCEPT !.position = <<x + 1, y>>]
          [] pointer.direction = "Left"  -> [pointer EXCEPT !.position = <<x - 1, y>>]

----------------------------------------------------------------------------
(* ExecutionError and ExecutionResult.  "Panic" is not a value step()      *)
(* returns: it marks an unwrap() or an integer division that panics.       *)

Ok == [kind |-> "Ok"]
OutputFailed == [kind |-> "OutputFailed"]
InputFailed == [kind |-> "InputFailed"]
UnrecognizedInstruction(pos, c) ==
    [kind |-> "UnrecognizedInstruction", position |-> pos, instruction |-> c]
Panic == [kind |-> "Panic"]
\* no result yet: run() has not returned
Pending == [kind |-> "Pending"]

----------------------------------------------------------------------------
(* The input capability: the bytes not yet read.  read_to_string takes all *)
(* of them and fails when they are not UTF-8.                              *)

RECURSIVE ValidUtf8(_)
\* str::from_utf8 succeeds (one- and two-byte sequences; the model's inputs
\* hold no lead byte of a longer sequence)
ValidUtf8(bytes) ==
    IF bytes = <<>> THEN TRUE
    ELSE IF bytes[1] < 128 THEN ValidUtf8(Tail(bytes))
    ELSE IF bytes[1] >= 194 /\ bytes[1] < 224 /\ Len(bytes) >= 2
            /\ bytes[2] >= 128 /\ bytes[2] < 192
         THEN ValidUtf8(Tail(Tail(bytes)))
    ELSE FALSE

RECURSIVE DecodeUtf8(_)
\* the chars of a valid UTF-8 byte sequence
DecodeUtf8(bytes) ==
    IF bytes = <<>> THEN <<>>
    ELSE IF bytes[1] < 128 THEN <<bytes[1]>> \o DecodeUtf8(Tail(bytes))
    ELSE <<(bytes[1] - 192) * 64 + (bytes[2] - 128)>> \o DecodeUtf8(Tail(Tail(bytes)))

\* char::is_whitespace, on the chars below U+0100
IsWhitespace(c) == c \in (9..13) \cup {32, 133, 160}

RECURSIVE TrimStart(_)
TrimStart(s) == IF s # <<>> /\ IsWhitespace(s[1]) THEN TrimStart(Tail(s)) ELSE s

RECURSIVE TrimEnd(_)
TrimEnd(s) ==
    IF s # <<>> /\ IsWhitespace(s[Len(s)]) THEN TrimEnd(SubSeq(s, 1, Len(s) - 1)) ELSE s

\* str::trim
Trim(s) == TrimEnd(TrimStart(s))

RECURSIVE DigitsValue(_)
DigitsValue(s) ==
    IF s = <<>> THEN 0 ELSE DigitsValue(SubSeq(s, 1, Len(s) - 1)) * 10 + (s[Len(s)] - ChZero)

\* str::parse::<isize>: an optional sign, then one or more decimal digits
ParseIsize(s) ==
    LET signed == s # <<>> /\ s[1] \in {ChAdd, ChSub}
        digits == IF signed THEN Tail(s) ELSE s
        good   == digits # <<>> /\ \A i \in 1..Len(digits) : digits[i] \in ChZero..ChNine
    IN  IF ~good THEN [ok |-> FALSE, val |-> 0]
        ELSE [ok |-> TRUE,
              val |-> IF signed /\ s[1] = ChSub THEN -DigitsValue(digits)
                      ELSE DigitsValue(digits)]

----------------------------------------------------------------------------
(* ExecutionState *)

\* ExecutionState::new; sink is the kind of the output capability O: writes
\* to a "vec" (Vec<u8>) never fail, a write to a "faulty" sink may fail
NewExecution(program, input, sink) ==
    [program |-> program,
     pointer |-> NewPointer,
     stack |-> NewStack,
     terminated |-> FALSE,
     string_mode |-> FALSE,
     instruction_count |-> 0,
     input |-> input,
     output |-> <<>>,
     sink |-> sink]

\* a faulty Reset: the stack is left as it is
ResetKeepingStack(e) ==
    [e EXCEPT !.pointer = NewPointer,
              !.terminated = FALSE,
              !.string_mode = FALSE,
              !.instruction_count = 0]

\* ExecutionState::reset
Reset(e) ==
    [e EXCEPT !.pointer = NewPointer,
              !.stack = NewStack,
              !.terminated = FALSE,
              !.string_mode = FALSE,
              !.instruction_count = 0]

(* An outcome of executing one instruction: the state it leaves, what it   *)
(* returns, and whether step() returned from inside the match (done) or    *)
(* falls through to the final move_pointer.                                *)
Cont(e) == [state |-> e, result |-> Ok, done |-> FALSE]
Ret(e, r) == [state |-> e, result |-> r, done |-> TRUE]

\* '"' => self.string_mode = !self.string_mode
ToggleStringMode(e) == {Cont([e EXCEPT !.string_mode = ~@])}

\* c if self.string_mode => self.stack.push(isize::from(c as u8))
StringModePush(e, c) == {Cont([e EXCEPT !.stack = Push(@, AsU8(c))])}

\* '^' 'v' '>' '<'
SetDirection(e, d) == {Cont([e EXCEPT !.pointer.direction = d])}

\* a faulty RandomDirection: gen_range(2..4), Left or Right only
RandomDirectionHorizontal(e) ==
    {Cont([e EXCEPT !.pointer.direction = d]) : d \in {"Left", "Right"}}

\* '?' => self.pointer.direction = self.rng.gen()
RandomDirection(e) == {Cont([e EXCEPT !.pointer.direction = d]) : d \in Directions}

\* a faulty HorizontalIf: the two directions exchanged
HorizontalIfFlipped(e) ==
    LET top == PopVal(e.stack)
    IN  {Cont([e EXCEPT !.stack = PopRest(@),
                        !.pointer.direction = IF top = 0 THEN "Left" ELSE "Right"])}

\* '_'
HorizontalIf(e) ==
    LET top == PopVal(e.stack)
    IN  {Cont([e EXCEPT !.stack = PopRest(@),
                        !.pointer.direction = IF top = 0 THEN "Right" ELSE "Left"])}

\* a faulty VerticalIf: the two directions exchanged
VerticalIfFlipped(e) ==
    LET top == PopVal(e.stack)
    IN  {Cont([e EXCEPT !.stack = PopRest(@),
                        !.pointer.direction = IF top = 0 THEN "Up" ELSE "Down"])}

\* '|'
VerticalIf(e) ==
    LET top == PopVal(e.stack)
    IN  {Cont([e EXCEPT !.stack = PopRest(@),
                        !.pointer.direction = IF top = 0 THEN "Down" ELSE "Up"])}

\* a faulty BinaryValue: the operands of '-' and '`' exchanged
BinaryValueExchanged(c, a, b) ==
    CASE c = ChAdd -> a + b
      [] c = ChSub -> a - b
      [] c = ChMul -> a * b
      [] c = ChGreater -> IF a > b THEN 1 ELSE 0

\* the value '+' '-' '*' '`' push for a (popped first) and b (popped second)
BinaryValue(c, a, b) ==
    CASE c = ChAdd -> a + b
      [] c = ChSub -> b - a
      [] c = ChMul -> a * b
      [] c = ChGreater -> IF b > a THEN 1 ELSE 0

\* '+' '-' '*' '`'
Binary(e, c) ==
    LET a  == PopVal(e.stack)
        s1 == PopRest(e.stack)
        b  == PopVal(s1)
        s2 == PopRest(s1)
    IN  {Cont([e EXCEPT !.stack = Push(s2, BinaryValue(c, a, b))])}

\* '/' '%': b / a and b % a panic when a is 0
Division(e, c) ==
    LET a  == PopVal(e.stack)
        s1 == PopRest(e.stack)
        b  == PopVal(s1)
        s2 == PopRest(s1)
    IN  IF a = 0 THEN {Ret([e EXCEPT !.stack = s2], Panic)}
        ELSE {Cont([e EXCEPT !.stack =
                 Push(s2, IF c = ChDiv THEN TruncDiv(b, a) ELSE TruncRem(b, a))])}

\* '!'
Not(e) ==
    LET b == PopVal(e.stack)
    IN  {Cont([e EXCEPT !.stack = Push(PopRest(@), IF b = 0 THEN 1 ELSE 0)])}

\* ':'
Duplicate(e) ==
    LET a == PopVal(e.stack)
    IN  {Cont([e EXCEPT !.stack = Push(Push(PopRest(@), a), a)])}

\* a faulty Swap: the two values pushed back as they were
SwapBack(e) ==
    LET a  == PopVal(e.stack)
        s1 == PopRest(e.stack)
        b  == PopVal(s1)
        s2 == PopRest(s1)
    IN  {Cont([e EXCEPT !.stack = Push(Push(s2, b), a)])}

\* '\\'
Swap(e) ==
    LET a  == PopVal(e.stack)
        s1 == PopRest(e.stack)
        b  == PopVal(s1)
        s2 == PopRest(s1)
    IN  {Cont([e EXCEPT !.stack = Push(Push(s2, a), b)])}

\* '$'
Discard(e) == {Cont([e EXCEPT !.stack = PopRest(@)])}

\* a faulty Write: the operand is popped only when the write succeeds
WriteThenPop(e, bytes) ==
    {Cont([e EXCEPT !.stack = PopRest(@), !.output = @ \o bytes])}
        \cup (IF e.sink = "vec" THEN {} ELSE {Ret(e, OutputFailed)})

\* write!(self.output, ...).map_err(|_| ExecutionError::OutputFailed)?, the
\* operand already popped
Write(e, bytes) ==
    LET popped == [e EXCEPT !.stack = PopRest(@)]
    IN  {Cont([popped EXCEPT !.output = @ \o bytes])}
        \cup (IF e.sink = "vec" THEN {} ELSE {Ret(popped, OutputFailed)})

\* a faulty OutputInt: the value is written as a char
OutputIntAsChar(e) == Write(e, EncodeUtf8(AsU8(PopVal(e.stack))))

\* '.'
OutputInt(e) == Write(e, FormatInt(PopVal(e.stack)))

\* ','
OutputChar(e) == Write(e, EncodeUtf8(AsU8(PopVal(e.stack))))

\* a faulty Bridge: no move of its own
BridgeStaying(e) == {Cont(e)}

\* '#' => move_pointer(&mut self.pointer)
Bridge(e) == {Cont([e EXCEPT !.pointer = MovePointer(@)])}

\* a faulty GetCell: the coordinates exchanged
GetCellTransposed(e) ==
    LET y  == PopVal(e.stack)
        s1 == PopRest(e.stack)
        x  == PopVal(s1)
        s2 == PopRest(s1)
    IN  {Cont([e EXCEPT !.stack = Push(s2, AsU8(Get(e.program, <<y, x>>)))])}

\* 'g'
GetCell(e) ==
    LET y  == PopVal(e.stack)
        s1 == PopRest(e.stack)
        x  == PopVal(s1)
        s2 == PopRest(s1)
    IN  {Cont([e EXCEPT !.stack = Push(s2, AsU8(Get(e.program, <<x, y>>)))])}

\* a faulty PutCell: the coordinates exchanged
PutCellTransposed(e) ==
    LET y  == PopVal(e.stack)
        s1 == PopRest(e.stack)
        x  == PopVal(s1)
        s2 == PopRest(s1)
        v  == PopVal(s2)
        s3 == PopRest(s2)
    IN  {Cont([e EXCEPT !.stack = s3, !.program = Set(@, <<y, x>>, AsU8(v))])}

\* 'p'
PutCell(e) ==
    LET y  == PopVal(e.stack)
        s1 == PopRest(e.stack)
        x  == PopVal(s1)
        s2 == PopRest(s1)
        v  == PopVal(s2)
        s3 == PopRest(s2)
    IN  {Cont([e EXCEPT !.stack = s3, !.program = Set(@, <<x, y>>, AsU8(v))])}

\* self.input.read_to_string(&mut input).map_err(|_| ExecutionError::InputFailed)?
\* fails on bytes that are not UTF-8, having taken all of them or none
\* (either, by the version of the standard library); otherwise yields all
ReadFailures(e) == {Ret([e EXCEPT !.input = rest], InputFailed) : rest \in {e.input, <<>>}}

\* '&': the whole remaining input, trimmed, must parse as one integer
InputInt(e) ==
    IF ~ValidUtf8(e.input) THEN ReadFailures(e)
    ELSE LET parsed == ParseIsize(Trim(DecodeUtf8(e.input)))
             taken  == [e EXCEPT !.input = <<>>]
         IN  IF parsed.ok THEN {Cont([taken EXCEPT !.stack = Push(@, parsed.val)])}
             ELSE {Ret(taken, Panic)}

\* '~': the first char of the whole remaining input
InputChar(e) ==
    IF ~ValidUtf8(e.input) THEN ReadFailures(e)
    ELSE LET chars == DecodeUtf8(e.input)
             taken == [e EXCEPT !.input = <<>>]
         IN  IF chars # <<>> THEN {Cont([taken EXCEPT !.stack = Push(@, AsU8(chars[1]))])}
             ELSE {Ret(taken, Panic)}

\* a faulty Terminate: no early return, so the final move_pointer runs
TerminateAndMove(e) == {Cont([e EXCEPT !.terminated = TRUE])}

\* '@': exit immediately (do not move the pointer when terminating)
Terminate(e) == {Ret([e EXCEPT !.terminated = TRUE], Ok)}

\* c @ '0'..='9'
PushDigit(e, c) == {Cont([e EXCEPT !.stack = Push(@, c - ChZero)])}

\* a faulty Noop: the engine is terminated
NoopTerminating(e) == {Cont([e EXCEPT !.terminated = TRUE])}

\* ' ' => {}
Noop(e) == {Cont(e)}

\* a faulty Unrecognized: the pointer moves on before the return
UnrecognizedSkipping(e, c) ==
    {Ret([e EXCEPT !.pointer = MovePointer(@)],
         UnrecognizedInstruction(e.pointer.position, c))}

\* c => return Err(ExecutionError::UnrecognizedInstruction {..})
Unrecognized(e, c) == {Ret(e, UnrecognizedInstruction(e.pointer.position, c))}

\* the match of step() below its first two arms
Dispatch(e, c) ==
    CASE c = ChUp -> SetDirection(e, "Up")
      [] c = ChDown -> SetDirection(e, "Down")
      [] c = ChRight -> SetDirection(e, "Right")
      [] c = ChLeft -> SetDirection(e, "Left")
      [] c = ChRandom -> RandomDirection(e)
      [] c = ChHorizontalIf -> HorizontalIf(e)
      [] c = ChVerticalIf -> VerticalIf(e)
      [] c \in {ChAdd, ChSub, ChMul, ChGreater} -> Binary(e, c)
      [] c \in {ChDiv, ChMod} -> Division(e, c)
      [] c = ChNot -> Not(e)
      [] c = ChDup -> Duplicate(e)
      [] c = ChSwap -> Swap(e)
      [] c = ChDiscard -> Discard(e)
      [] c = ChOutInt -> OutputInt(e)
      [] c = ChOutChar -> OutputChar(e)
      [] c = ChBridge -> Bridge(e)
      [] c = ChGet -> GetCell(e)
      [] c = ChPut -> PutCell(e)
      [] c = ChInInt -> InputInt(e)
      [] c = ChInChar -> InputChar(e)
      [] c = ChEnd -> Terminate(e)
      [] c \in ChZero..ChNine -> PushDigit(e, c)
      [] c = ChSpace -> Noop(e)
      [] OTHER -> Unrecognized(e, c)

\* a faulty Execute: the string-mode arm is missing
ExecuteDispatchOnly(e, c) ==
    IF c = ChQuote THEN ToggleStringMode(e) ELSE Dispatch(e, c)

\* the match of step(): the quote arm, the string-mode arm, then the rest
Execute(e, c) ==
    IF c = ChQuote THEN ToggleStringMode(e)
    ELSE IF e.string_mode THEN StringModePush(e, c)
    ELSE Dispatch(e, c)

\* a faulty CountInstruction: the count is left alone
CountInstructionSkipped(e) == e

\* self.instruction_count += 1, at the top of step()
CountInstruction(e) == [e EXCEPT !.instruction_count = @ + 1]

\* a faulty Advance: the pointer moves after an early return too
AdvanceAlways(o) ==
    [state |-> [o.state EXCEPT !.pointer = MovePointer(@)], result |-> o.result]

\* the move_pointer that ends step() when the match did not return
Advance(o) ==
    IF o.done THEN [state |-> o.state, result |-> o.result]
    ELSE [state |-> [o.state EXCEPT !.pointer = MovePointer(@)], result |-> Ok]

\* ExecutionState::step: every (state, result) a call can end in
Step(e) ==
    LET counted == CountInstruction(e)
    IN  {Advance(o) : o \in Execute(counted, Get(counted.program, counted.pointer.position))}

----------------------------------------------------------------------------
(* ExecutionState::run:  while !self.terminated { self.step()?; }  Ok(())  *)

\* the loop condition of run()
RunCondition(e) == ~e.terminated

\* a faulty Propagate: the Err of a step is swallowed and run() goes on
PropagateSwallowed(result) == [pc |-> "run", run_result |-> Pending]

\* the `?` of run(): an Err ends run() with that Err, Ok goes on looping
Propagate(result) ==
    IF result = Ok THEN [pc |-> "run", run_result |-> Pending]
    ELSE [pc |-> "idle", run_result |-> result]

----------------------------------------------------------------------------
(* The programs, inputs and sinks the engines of the model are built from  *)

Digit(n) == ChZero + n

\* line beginnings that leave, in order: an empty stack, [7], [7 2], [2 7],
\* [7 0], [-7], [-7 2], [7 -2], [9 1 0], and string mode with an empty stack
Prefixes ==
    { <<>>,
      <<Digit(7)>>,
      <<Digit(7), Digit(2)>>,
      <<Digit(2), Digit(7)>>,
      <<Digit(7), Digit(0)>>,
      <<Digit(0), Digit(7), ChSub>>,
      <<Digit(0), Digit(7), ChSub, Digit(2)>>,
      <<Digit(7), Digit(0), Digit(2), ChSub>>,
      <<Digit(9), Digit(1), Digit(0)>>,
      <<ChQuote>> }

\* every instruction, two digits, and three characters outside the
\* vocabulary: 'z', U+00C8 and U+2500
Instructions ==
    { ChQuote, ChUp, ChDown, ChRight, ChLeft, ChRandom, ChHorizontalIf, ChVerticalIf,
      ChAdd, ChSub, ChMul, ChDiv, ChMod, ChNot, ChGreater, ChDup, ChSwap, ChDiscard,
      ChOutInt, ChOutChar, ChBridge, ChGet, ChPut, ChInInt, ChInChar, ChEnd,
      Digit(0), Digit(7), ChSpace, 122, 200, 9472 }

Suffixes == { <<>>, <<ChEnd>>, <<ChQuote, ChEnd>> }

\* a second line of '@' under every cell of the first
Below(line) == <<ChNewline>> \o [i \in 1..Len(line) |-> ChEnd]

\* "~:,12p7@": a program that reads, writes, puts and ends
ReadWritePut == <<ChInChar, ChDup, ChOutChar, Digit(1), Digit(2), ChPut, Digit(7), ChEnd>>

\* "&&" and "~~": two input instructions in a row
ReadTwice == {<<ChInInt, ChInInt>>, <<ChInChar, ChInChar>>}

\* programs that reach a '#' heading Down, Left and Up, with a 'z' behind it
\* and an '@' behind the 'z'
\*   v        v          v@
\*   #        >  v        z
\*   z        @z#<        #
\*   @                   >^
BridgeDown ==
    <<ChDown, ChNewline, ChBridge, ChNewline, 122, ChNewline, ChEnd>>
BridgeLeft ==
    <<ChDown, ChNewline>>
        \o <<ChRight, ChSpace, ChSpace, ChDown, ChNewline>>
        \o <<ChEnd, 122, ChBridge, ChLeft>>
BridgeUp ==
    <<ChDown, ChEnd, ChNewline>>
        \o <<ChSpace, 122, ChNewline>>
        \o <<ChSpace, ChBridge, ChNewline>>
        \o <<ChRight, ChUp>>

Texts ==
    LET lines == {p \o <<c>> \o s : p \in Prefixes, c \in Instructions, s \in Suffixes}
    IN  lines \cup {l \o Below(l) : l \in lines} \cup {ReadWritePut} \cup ReadTwice
           \cup {BridgeDown, BridgeLeft, BridgeUp}

\* "", "5", "1 2", "ab", and a byte that is not UTF-8
Inputs == { <<>>, <<53>>, <<49, 32, 50>>, <<97, 98>>, <<255>> }

Sinks == {"vec", "faulty"}

Reads(t) == \E i \in 1..Len(t) : t[i] \in {ChInInt, ChInChar}
Writes(t) == \E i \in 1..Len(t) : t[i] \in {ChOutInt, ChOutChar}

\* input is given to the programs that read, a faulty sink to those that write
Configs ==
    {c \in [text : Texts, input : Inputs, sink : Sinks] :
        /\ c.input # <<>> => Reads(c.text)
        /\ c.sink = "faulty" => Writes(c.text)}

----------------------------------------------------------------------------
(* ide.rs: the IDE state, its key handler and its tick handler.  A handler *)
(* is a set of outcomes: the IDE state, the engine and the master program  *)
(* it leaves, what it returns ("Continue", "Quit", or "Panic" when the     *)
(* step it made panicked), and the result of the step it made, if any.     *)

\* IDEState::new
IDEStateNew ==
    [instructions_per_second |-> 10,
     paused |-> TRUE,
     following |-> FALSE,
     editing |-> FALSE,
     view_center |-> <<0, 0>>,
     error |-> None]

\* IDEState::tick_time, in nanoseconds:
\* Duration::from_secs_f64(1.0 / (instructions_per_second as f64)), which
\* panics for the infinite 1.0 / 0.0
TickTime(s) ==
    IF s.instructions_per_second = 0
    THEN Panic
    ELSE Some(1000000000 \div s.instructions_per_second)

\* view_center.shifted(dx, dy)
Shifted(position, dx, dy) == <<position[1] + dx, position[2] + dy>>

\* usize::max
Max(a, b) == IF a >= b THEN a ELSE b

\* (instructions_per_second + 1).max(1)
SpeedUp(ips) == Max(ips + 1, 1)

\* a faulty SlowDown: the result is not kept at 1 or above
SlowDownUnclamped(ips) == ips - 1

\* (instructions_per_second - 1).max(1)
SlowDown(ips) == Max(ips - 1, 1)

Outcome(s, e, program, result, step) ==
    [ide_state |-> s, execution |-> e, program |-> program, result |-> result,
     step |-> step]

\* execution_state.reset(); execution_state.program = program.clone();
\* execution_state.output.clear();
Restart(e, program) == [Reset(e) EXCEPT !.program = program, !.output = <<>>]

\* a faulty EnterEditing: the engine is left as it is
EnterEditingRunning(s, e, program) ==
    {Outcome([s EXCEPT !.paused = TRUE, !.editing = TRUE], e, program, "Continue", None)}

\* KeyCode::Char('i') if !ide_state.editing
EnterEditing(s, e, program) ==
    {Outcome([s EXCEPT !.paused = TRUE, !.editing = TRUE], Restart(e, program),
             program, "Continue", None)}

\* a faulty Edit: the character goes into the master program only
EditMasterOnly(s, e, program, c) ==
    {Outcome(s, e, Set(program, s.view_center, c), "Continue", None)}

\* KeyCode::Char(c) if ide_state.editing
Edit(s, e, program, c) ==
    LET edited == Set(program, s.view_center, c)
    IN  {Outcome(s, [e EXCEPT !.program = edited], edited, "Continue", None)}

\* a faulty SingleStep: after an error the engine keeps its program
SingleStepKeepingProgram(s, e, program) ==
    { IF o.result = Panic
      THEN Outcome([s EXCEPT !.paused = TRUE], o.state, program, "Panic", Some(Panic))
      ELSE IF o.result # Ok
      THEN Outcome([s EXCEPT !.paused = TRUE, !.error = Some(o.result)],
                   [Reset(o.state) EXCEPT !.output = <<>>], program, "Continue",
                   Some(o.result))
      ELSE Outcome([s EXCEPT !.paused = TRUE], o.state, program, "Continue", Some(Ok))
      : o \in Step(e) }

\* KeyCode::Char('t') if !ide_state.editing
SingleStep(s, e, program) ==
    { IF o.result = Panic
      THEN Outcome([s EXCEPT !.paused = TRUE], o.state, program, "Panic", Some(Panic))
      ELSE IF o.result # Ok
      THEN Outcome([s EXCEPT !.paused = TRUE, !.error = Some(o.result)],
                   Restart(o.state, program), program, "Continue", Some(o.result))
      ELSE Outcome([s EXCEPT !.paused = TRUE], o.state, program, "Continue", Some(Ok))
      : o \in Step(e) }

\* the arrow keys
MoveView(s, e, program, dx, dy) ==
    {Outcome([s EXCEPT !.view_center = Shifted(@, dx, dy), !.following = FALSE],
             e, program, "Continue", None)}

\* a faulty Captured: 'q' is left to its command
CapturedExceptQuit(s, event) ==
    event.code = "Char" /\ event.c # 113 /\ s.editing

\* the guard of the arm KeyCode::Char(c) if ide_state.editing
Captured(s, event) == event.code = "Char" /\ s.editing

\* handle_key: the arms of the match in their order; an event that is no key
\* ("Resize") and a key without an arm ("Enter") change nothing
HandleKey(event, s, e, program) ==
    LET Same(t) == {Outcome(t, e, program, "Continue", None)}
        Is(c) == event.code = "Char" /\ event.c = c
    IN  CASE Is(105) /\ ~s.editing -> EnterEditing(s, e, program)
          [] event.code = "Esc" /\ s.editing -> Same([s EXCEPT !.editing = FALSE])
          [] Captured(s, event) -> Edit(s, e, program, event.c)
          [] Is(113) -> {Outcome(s, e, program, "Quit", None)}
          [] Is(114) -> {Outcome(s, Restart(e, program), program, "Continue", None)}
          [] Is(32) /\ ~s.editing -> Same([s EXCEPT !.paused = ~@])
          [] Is(116) /\ ~s.editing -> SingleStep(s, e, program)
          [] Is(102) -> Same([s EXCEPT !.following = ~@])
          [] Is(43) -> Same([s EXCEPT !.instructions_per_second = SpeedUp(@)])
          [] Is(45) ->
                IF s.instructions_per_second < 1
                THEN {Outcome(s, e, program, "Panic", None)}
                ELSE Same([s EXCEPT !.instructions_per_second = SlowDown(@)])
          [] event.code = "Left" -> MoveView(s, e, program, -1, 0)
          [] event.code = "Right" -> MoveView(s, e, program, 1, 0)
          [] event.code = "Up" -> MoveView(s, e, program, 0, -1)
          [] event.code = "Down" -> MoveView(s, e, program, 0, 1)
          [] OTHER -> Same(s)

\* the view follows the pointer: if ide_state.following { view_center = ... }
Follow(s, e) ==
    IF s.following THEN [s EXCEPT !.view_center = e.pointer.position] ELSE s

\* handle_tick
HandleTick(s, e, program) ==
    IF s.paused
    THEN {Outcome(s, e, program, "Continue", None)}
    ELSE { IF o.result = Panic
           THEN Outcome(s, o.state, program, "Panic", Some(Panic))
           ELSE IF o.result # Ok
           THEN Outcome([Follow(s, o.state) EXCEPT !.paused = TRUE,
                                                   !.error = Some(o.result)],
                        Restart(o.state, program), program, "Continue", Some(o.result))
           ELSE Outcome(Follow(s, o.state), o.state, program, "Continue", Some(Ok))
           : o \in Step(e) }

----------------------------------------------------------------------------
(* The state machine: a driver that owns one engine and calls step(),      *)
(* reset() and run() on it                                                 *)

Construct(c) ==
    /\ text = c.text
    /\ execution = NewExecution(FromStr(c.text), c.input, c.sink)
    /\ pc = "idle"
    /\ last = [op |-> "new", before |-> execution, result |-> Ok, in_run |-> FALSE]
    /\ run_entry = FALSE
    /\ run_steps = 0
    /\ run_result = Pending
    /\ driver_program = FromStr(c.text)
    /\ puts = <<>>
    /\ ide_state = IDEStateNew

Init == \E c \in Configs : Construct(c)

\* the bounds: no step() beyond MaxSteps instructions or MaxOut bytes of output
WithinBounds ==
    /\ execution.instruction_count < MaxSteps
    /\ Len(execution.output) < MaxOut

\* the history after a step() from e: a 'p' step records the value it popped
\* third for the Position(x, y) it popped second (x) and first (y)
Recorded(e) ==
    IF ~e.string_mode /\ Get(e.program, e.pointer.position) = ChPut
    THEN LET y == PopVal(e.stack)
             x == PopVal(PopRest(e.stack))
             v == PopVal(PopRest(PopRest(e.stack)))
         IN  [q \in (DOMAIN puts) \cup {<<x, y>>} |-> IF q = <<x, y>> THEN v ELSE puts[q]]
    ELSE puts

\* the driver calls step() (as the IDE and the stepper do)
CallStep ==
    /\ pc = "idle"
    /\ WithinBounds
    /\ \E o \in Step(execution) :
          /\ execution' = o.state
          /\ last' = [op |-> "step", before |-> execution, result |-> o.result,
                      in_run |-> FALSE]
          /\ pc' = IF o.result = Panic THEN "panicked" ELSE "idle"
    /\ puts' = Recorded(execution)
    /\ UNCHANGED <<ide_state, text, run_entry, run_steps, run_result, driver_program>>

\* the driver calls reset()
CallReset ==
    /\ pc = "idle"
    /\ execution' = Reset(execution)
    /\ last' = [op |-> "reset", before |-> execution, result |-> Ok, in_run |-> FALSE]
    /\ UNCHANGED <<ide_state, text, pc, run_entry, run_steps, run_result, driver_program, puts>>

\* the driver calls run()
CallRun ==
    /\ pc = "idle"
    /\ pc' = "run"
    /\ run_entry' = execution.terminated
    /\ run_steps' = 0
    /\ run_result' = Pending
    /\ last' = [op |-> "run", before |-> execution, result |-> Ok, in_run |-> TRUE]
    /\ UNCHANGED <<ide_state, text, execution, driver_program, puts>>

\* one iteration of the loop of run()
RunIteration ==
    /\ pc = "run"
    /\ RunCondition(execution)
    /\ \E o \in Step(execution) :
          /\ execution' = o.state
          /\ last' = [op |-> "step", before |-> execution, result |-> o.result,
                      in_run |-> TRUE]
          /\ pc' = IF o.result = Panic THEN "panicked" ELSE Propagate(o.result).pc
          /\ run_result' = IF o.result = Panic THEN Pending ELSE Propagate(o.result).run_result
    /\ run_steps' = run_steps + 1
    /\ puts' = Recorded(execution)
    /\ UNCHANGED <<ide_state, text, run_entry, driver_program>>

RunLoop == WithinBounds /\ RunIteration

\* run() leaves its loop and returns Ok(())
RunReturn ==
    /\ pc = "run"
    /\ ~RunCondition(execution)
    /\ pc' = "idle"
    /\ run_result' = Ok
    /\ last' = [op |-> "return", before |-> execution, result |-> Ok, in_run |-> TRUE]
    /\ UNCHANGED <<ide_state, text, execution, run_entry, run_steps, driver_program, puts>>

Next == CallStep \/ CallReset \/ CallRun \/ RunLoop \/ RunReturn

Spec == Init /\ [][Next]_vars

----------------------------------------------------------------------------
(* Scenario: hello world, run to termination from a fresh engine with      *)
(* empty input and a Vec<u8> as output (tests::hello_world)                *)

\* 64+"!dlroW ,olleH">:#,_@
HELLO_WORLD ==
    << 54, 52, 43, 34, 33, 100, 108, 114, 111, 87, 32, 44, 111, 108, 108, 101,
       72, 34, 62, 58, 35, 44, 95, 64 >>

\* "Hello, World!\n"
HelloOutput == << 72, 101, 108, 108, 111, 44, 32, 87, 111, 114, 108, 100, 33, 10 >>

HelloInit == Construct([text |-> HELLO_WORLD, input |-> <<>>, sink |-> "vec"])

\* execution.run() on the engine just constructed
RunFresh == last.op = "new" /\ CallRun

HelloNext == RunFresh \/ RunIteration \/ RunReturn

SpecHello == HelloInit /\ [][HelloNext]_vars

----------------------------------------------------------------------------
(* What the last operation was, for the properties below *)

\* the last operation was a call of step()
Stepped == last.op = "step"

\* the character that step() read
Cell == Get(last.before.program, last.before.pointer.position)

\* the last operation was a step() that dispatched instruction c
Dispatched(c) == Stepped /\ ~last.before.string_mode /\ Cell = c

\* the last step() returned (it did not panic)
Returned == Stepped /\ last.result # Panic

----------------------------------------------------------------------------
(* C1 *)

\* C1: hello world, run from a fresh engine with empty input: run() returns
\* Ok, with the output exactly "Hello, World!\n" and terminated = true; no
\* step fails or panics on the way.
C1_HelloWorld ==
    /\ pc # "panicked"
    /\ run_result \in {Pending, Ok}
    /\ last.op = "return" =>
          /\ run_result = Ok
          /\ execution.output = HelloOutput
          /\ execution.terminated

C1_Witness ==
    /\ last.op = "return"
    /\ run_result = Ok
    /\ execution.output = HelloOutput
    /\ execution.terminated

----------------------------------------------------------------------------
(* C2 *)

\* the most values one instruction pops ('p')
MaxPops == 3

Zeros(k) == [i \in 1..k |-> 0]

\* outcome padded is outcome o with zeros left at the bottom of the stack
SameButPadding(o, padded) ==
    /\ padded.result = o.result
    /\ \E j \in 0..MaxPops : padded.state = [o.state EXCEPT !.stack = Zeros(j) \o @]

\* step() from e ends as step() from e with MaxPops zeros under its stack
PopsAsIfPadded(e) ==
    LET plain  == Step(e)
        padded == Step([e EXCEPT !.stack = Zeros(MaxPops) \o @])
    IN  /\ \A o \in plain : \E q \in padded : SameButPadding(o, q)
        /\ \A q \in padded : \E o \in plain : SameButPadding(o, q)

\* C2: popping an empty stack yields 0 and never fails: from every state a
\* step() was called in, the step ends exactly as it does with zeros padded
\* under the stack (same result, same state but for the zeros left over);
\* '$' on an empty stack leaves it empty and '+' leaves [0], both returning Ok.
C2_PopEmptyIsZero ==
    Stepped =>
        /\ PopsAsIfPadded(last.before)
        /\ (Dispatched(ChDiscard) /\ last.before.stack = <<>>) =>
              (last.result = Ok /\ execution.stack = <<>>)
        /\ (Dispatched(ChAdd) /\ last.before.stack = <<>>) =>
              (last.result = Ok /\ execution.stack = <<0>>)

C2_Witness ==
    /\ Dispatched(ChAdd)
    /\ last.before.stack = <<>>
    /\ last.result = Ok
    /\ execution.stack = <<0>>

----------------------------------------------------------------------------
(* C3 *)

Abs(n) == IF n < 0 THEN -n ELSE n

\* q is the quotient of b by a truncated toward zero, r the remainder
IsTruncatedDivision(b, a, q, r) ==
    /\ b = q * a + r
    /\ Abs(r) < Abs(a)
    /\ r = 0 \/ (r < 0) = (b < 0)

\* v is "b op a" for the binary instruction c
IsBinaryResult(c, a, b, v) ==
    CASE c = ChAdd -> v = b + a
      [] c = ChSub -> v = b - a
      [] c = ChMul -> v = b * a
      [] c = ChGreater -> v = (IF b > a THEN 1 ELSE 0)
      [] c = ChDiv -> \E r \in -Abs(b)..Abs(b) : IsTruncatedDivision(b, a, v, r)
      [] c = ChMod -> \E q \in -Abs(b)..Abs(b) : IsTruncatedDivision(b, a, q, v)

BinaryInstructions == {ChAdd, ChSub, ChMul, ChDiv, ChMod, ChGreater}

\* C3: a step on + - * / % or ` (for / and %, with a nonzero first-popped
\* value) removes a (the top) and b (below it) and pushes b op a, for ` 1 if
\* b > a and else 0; '-' pushes b - a.
C3_BinaryOperandOrder ==
    \A c \in BinaryInstructions :
        LET a    == PopVal(last.before.stack)
            b    == PopVal(PopRest(last.before.stack))
            rest == PopRest(PopRest(last.before.stack))
        IN  (Dispatched(c) /\ ~(c \in {ChDiv, ChMod} /\ a = 0)) =>
               /\ last.result = Ok
               /\ Len(execution.stack) = Len(rest) + 1
               /\ SubSeq(execution.stack, 1, Len(rest)) = rest
               /\ IsBinaryResult(c, a, b, execution.stack[Len(execution.stack)])

\* '-' on [2 7] (b = 2, a = 7) has pushed -5
C3_Witness ==
    /\ Dispatched(ChSub)
    /\ last.before.stack = <<2, 7>>
    /\ execution.stack = <<-5>>

----------------------------------------------------------------------------
(* C4 *)

\* C4: '/' or '%' with 0 as the first popped value (the divisor), the
\* implicit 0 of an empty stack included, makes step() return a reported
\* failure to its caller; it is never a fault that aborts the process.
C4_DivisionByZeroReported ==
    \A c \in {ChDiv, ChMod} :
        (Dispatched(c) /\ PopVal(last.before.stack) = 0) =>
            /\ pc # "panicked"
            /\ last.result \notin {Ok, Panic}

\* '/' was stepped on an empty stack
C4_Witness == Dispatched(ChDiv) /\ last.before.stack = <<>>

----------------------------------------------------------------------------
(* C5 *)

\* the program whose only cell is 'z' at (0,0)
OnlyZ == <<122>>

\* C5: for the program "z", the first step() fails with UnrecognizedInstruction
\* at (0,0) for 'z', leaving the instruction counter at exactly 1 and the
\* pointer at (0,0); and so run() on the fresh engine returns that error.
C5_UnknownInstruction ==
    text = OnlyZ =>
        /\ (Stepped /\ last.before.instruction_count = 0) =>
              /\ last.result = UnrecognizedInstruction(<<0, 0>>, 122)
              /\ execution.instruction_count = 1
              /\ execution.pointer.position = <<0, 0>>
        /\ (Stepped /\ last.in_run /\ last.before.instruction_count = 0) =>
              /\ pc = "idle"
              /\ run_result = UnrecognizedInstruction(<<0, 0>>, 122)
              /\ run_steps = 1

C5_Witness ==
    /\ text = OnlyZ
    /\ Stepped /\ last.in_run /\ last.before.instruction_count = 0
    /\ run_result = UnrecognizedInstruction(<<0, 0>>, 122)
    /\ execution.instruction_count = 1

----------------------------------------------------------------------------
(* C6 *)

\* C6: terminated is a one-way latch under stepping: a step() called on a
\* terminated engine leaves terminated true and is rejected or a no-op: it
\* changes none of pointer, stack, string-mode flag, instruction counter,
\* program and output.
C6_TerminatedLatch ==
    (Stepped /\ last.before.terminated) =>
        /\ execution.terminated
        /\ execution.pointer = last.before.pointer
        /\ execution.stack = last.before.stack
        /\ execution.string_mode = last.before.string_mode
        /\ execution.instruction_count = last.before.instruction_count
        /\ execution.program = last.before.program
        /\ execution.output = last.before.output

\* step() was called on a terminated engine
C6_Witness == Stepped /\ last.before.terminated

----------------------------------------------------------------------------
(* C7 *)

\* C7: run() calls step() only while terminated is false; it returns Ok only
\* with terminated true; when a step fails, run() returns that error as it is
\* and calls no further step; called on a terminated engine it makes no step.
C7_RunLoop ==
    /\ (Stepped /\ last.in_run) => ~last.before.terminated
    /\ last.op = "return" => (run_result = Ok /\ execution.terminated)
    /\ (Stepped /\ last.in_run /\ last.result \notin {Ok, Panic}) =>
          (pc = "idle" /\ run_result = last.result)
    /\ pc = "run" => (last.op = "run" \/ (Stepped /\ last.in_run /\ last.result = Ok))
    /\ (run_entry /\ (pc = "run" \/ last.op = "return")) => run_steps = 0

\* run() has returned the error of its third step
C7_Witness ==
    /\ Stepped /\ last.in_run
    /\ last.result.kind = "UnrecognizedInstruction"
    /\ run_steps = 3
    /\ pc = "idle"
    /\ run_result = last.result

----------------------------------------------------------------------------
(* C8 *)

\* C8: a step that executes '@' outside string mode sets terminated and
\* returns Ok at once: pointer position and direction, stack, program and
\* output are as before the step.
C8_TerminateFrame ==
    Dispatched(ChEnd) =>
        /\ last.result = Ok
        /\ execution.terminated
        /\ execution.pointer = last.before.pointer
        /\ execution.stack = last.before.stack
        /\ execution.program = last.before.program
        /\ execution.output = last.before.output

\* '@' was executed away from the origin with values on the stack
C8_Witness ==
    /\ Dispatched(ChEnd)
    /\ ~last.before.terminated
    /\ execution.terminated
    /\ last.before.stack # <<>>
    /\ execution.pointer.position # <<0, 0>>

----------------------------------------------------------------------------
(* C9 *)

\* the position n cells from pos in direction dir
Ahead(pos, dir, n) ==
    CASE dir = "Right" -> <<pos[1] + n, pos[2]>>
      [] dir = "Left"  -> <<pos[1] - n, pos[2]>>
      [] dir = "Down"  -> <<pos[1], pos[2] + n>>
      [] dir = "Up"    -> <<pos[1], pos[2] - n>>

\* the last step() completed its instruction: it returned Ok and was no '@'
Completed == Returned /\ last.result = Ok /\ ~Dispatched(ChEnd)

\* the last step() executed '@' or returned an error
EndedEarly == Returned /\ ~Completed

\* C9 as stated: a step that completes advances the pointer one cell along
\* its (possibly new) direction and adds one to the instruction counter; a
\* step that terminates or fails moves no pointer and leaves the counter.
C9_AdvanceAndCount ==
    /\ Completed =>
          /\ execution.pointer.position =
                Ahead(last.before.pointer.position, execution.pointer.direction, 1)
          /\ execution.instruction_count = last.before.instruction_count + 1
    /\ EndedEarly =>
          /\ execution.pointer = last.before.pointer
          /\ execution.instruction_count = last.before.instruction_count

\* C9 amended: a step that completes advances the pointer one cell along its
\* (possibly new) direction, two cells for '#', and adds one to the
\* instruction counter; a step that terminates or fails moves no pointer
\* and adds one to the instruction counter all the same.
C9_AdvanceAndCountAlways ==
    /\ Completed =>
          /\ execution.pointer.position =
                Ahead(last.before.pointer.position, execution.pointer.direction,
                      IF Dispatched(ChBridge) THEN 2 ELSE 1)
          /\ execution.instruction_count = last.before.instruction_count + 1
    /\ EndedEarly =>
          /\ execution.pointer = last.before.pointer
          /\ execution.instruction_count = last.before.instruction_count + 1

\* a step that failed on a cell away from the origin
C9_Witness ==
    /\ EndedEarly
    /\ last.result.kind = "UnrecognizedInstruction"
    /\ execution.pointer.position # <<0, 0>>
    /\ execution.instruction_count = last.before.instruction_count + 1

----------------------------------------------------------------------------
(* C10 *)

\* the last step() changed nothing but what string mode handling may change:
\* the stack, the string-mode flag, the pointer position and the counter
OnlyStringModeEffects ==
    /\ last.result = Ok
    /\ execution.terminated = last.before.terminated
    /\ execution.pointer.direction = last.before.pointer.direction
    /\ execution.pointer.position =
          Ahead(last.before.pointer.position, last.before.pointer.direction, 1)
    /\ execution.program = last.before.program
    /\ execution.input = last.before.input
    /\ execution.output = last.before.output

\* what the quote character does, in and out of string mode
QuoteToggles ==
    (Stepped /\ Cell = ChQuote) =>
        /\ execution.string_mode = ~last.before.string_mode
        /\ execution.stack = last.before.stack
        /\ OnlyStringModeEffects

\* C10 as stated: in string mode a step on a cell c other than the quote
\* pushes the numeric code of c and dispatches nothing ('@' does not
\* terminate, no instruction acts, no character fails), and the quote toggles
\* string mode and pushes nothing; the pointer then advances one cell.
C10_StringMode ==
    /\ (Stepped /\ last.before.string_mode /\ Cell # ChQuote) =>
          /\ execution.stack = Append(last.before.stack, Cell)
          /\ execution.string_mode
          /\ OnlyStringModeEffects
    /\ QuoteToggles

\* C10 amended: as stated, but the value pushed is the numeric code of c
\* modulo 256 (the code itself for every c below 256).
C10_StringModeByte ==
    /\ (Stepped /\ last.before.string_mode /\ Cell # ChQuote) =>
          /\ execution.stack = Append(last.before.stack, Cell % 256)
          /\ execution.string_mode
          /\ OnlyStringModeEffects
    /\ QuoteToggles

\* '@' was stepped over in string mode: 64 pushed, not terminated
C10_Witness ==
    /\ Stepped /\ last.before.string_mode /\ Cell = ChEnd
    /\ execution.stack = Append(last.before.stack, 64)
    /\ ~execution.terminated
    /\ execution.string_mode

----------------------------------------------------------------------------
(* C11 *)

RECURSIVE Literal(_)
\* instructions that push the integer n
Literal(n) ==
    IF n \in 0..9 THEN <<Digit(n)>>
    ELSE IF n < 0 THEN <<Digit(0)>> \o Literal(-n) \o <<ChSub>>
    ELSE Literal(n \div 9) \o <<Digit(9), ChMul>> \o Literal(n % 9) \o <<ChAdd>>

\* values written: a NUL, letters, values above 255 and negative values
PutValues == {0, 65, 200, 256, 300, -1, -300}

\* cells written: the origin, and cells left of, above, below and far right
\* of the text
PutXs == {0, -1, 40}
PutYs == {0, -2, 1}

\* v x y p  x y g  @
PutGetTexts ==
    {Literal(v) \o Literal(x) \o Literal(y) \o <<ChPut>>
        \o Literal(x) \o Literal(y) \o <<ChGet, ChEnd>> :
     v \in PutValues, x \in PutXs, y \in PutYs}

PutGetInit ==
    \E t \in PutGetTexts : Construct([text |-> t, input |-> <<>>, sink |-> "vec"])

PutGetNext == RunFresh \/ RunIteration \/ RunReturn

SpecPutGet == PutGetInit /\ [][PutGetNext]_vars

\* C11: a 'g' step that pops y, x for a cell a 'p' step wrote before (popping
\* the same y, x and then v) pushes v mod 256, a value in 0..255, whatever the
\* sign and size of v and wherever the cell is; a 'p' step changes no other
\* cell of the program.
C11_PutThenGet ==
    /\ Dispatched(ChGet) =>
          LET y    == PopVal(last.before.stack)
              x    == PopVal(PopRest(last.before.stack))
              rest == PopRest(PopRest(last.before.stack))
          IN  <<x, y>> \in DOMAIN puts =>
                 /\ last.result = Ok
                 /\ execution.stack = Append(rest, puts[<<x, y>>] % 256)
                 /\ execution.stack[Len(execution.stack)] \in 0..255
    /\ Dispatched(ChPut) =>
          LET y == PopVal(last.before.stack)
              x == PopVal(PopRest(last.before.stack))
          IN  /\ last.result = Ok
              /\ DOMAIN execution.program = (DOMAIN last.before.program) \cup {<<x, y>>}
              /\ \A q \in (DOMAIN last.before.program) \ {<<x, y>>} :
                    execution.program[q] = last.before.program[q]

\* 'g' has pushed 212 for the cell (-1, -2), where 'p' wrote -300
C11_Witness ==
    /\ Dispatched(ChGet)
    /\ <<-1, -2>> \in DOMAIN puts
    /\ puts[<<-1, -2>>] = -300
    /\ last.before.stack = <<-1, -2>>
    /\ execution.stack = <<212>>

----------------------------------------------------------------------------
(* C12 *)

\* C12: a ',' step that returns Ok pops one value v and appends exactly one
\* byte, equal to v mod 256, to the output, for every v (128..255 and
\* negative values included).
C12_OutputCharOneByte ==
    Dispatched(ChOutChar) /\ last.result = Ok =>
       /\ execution.stack = PopRest(last.before.stack)
       /\ Len(execution.output) = Len(last.before.output) + 1
       /\ execution.output =
             Append(last.before.output, PopVal(last.before.stack) % 256)

\* ',' popped -7 (249 mod 256) and appended the two bytes C3 B9
C12_Witness ==
    /\ Dispatched(ChOutChar)
    /\ last.result = Ok
    /\ last.before.stack = <<-7>>
    /\ last.before.output = <<>>
    /\ execution.output = <<195, 185>>

----------------------------------------------------------------------------
(* The Program store on its own: a driver that builds one Program, with    *)
(* Program::new or Program::from_str, and calls set, get, view and extent  *)
(* on it                                                                   *)

\* "12\n34" of test_from_str; the empty text; one line; ragged lines; a
\* final newline; "\r\n" line endings; a "\r" ending the text; an empty
\* line; a "\r" inside a line; spaces
StoreTexts ==
    { <<Digit(1), Digit(2), ChNewline, Digit(3), Digit(4)>>,
      <<>>,
      <<Digit(1)>>,
      <<Digit(1), Digit(2), ChNewline, Digit(3)>>,
      <<Digit(1), ChNewline, Digit(2), Digit(3)>>,
      <<Digit(1), Digit(2), ChNewline, Digit(3), Digit(4), ChNewline>>,
      <<Digit(1), ChReturn, ChNewline, Digit(2)>>,
      <<Digit(1), ChReturn>>,
      <<Digit(1), ChNewline, ChNewline, Digit(2)>>,
      <<Digit(1), ChReturn, Digit(2)>>,
      <<ChSpace, Digit(1), ChNewline, Digit(2), ChSpace>> }

\* the positions set and got: the cells of test_extent_with_multi_cell_program
\* and one with a negative coordinate
StorePositions == {<<0, 0>>, <<1, 2>>, <<-1, 0>>}

\* the chars set: '.' and space
StoreChars == {ChOutInt, ChSpace}

\* the positions got: those set, one inside the texts and one far from them
GetPositions == StorePositions \cup {<<1, 1>>, <<2, -3>>}

\* the corners of the rectangles viewed
ViewUpperLefts == {<<0, 0>>, <<1, 0>>, <<-1, -1>>}
ViewLowerRights ==
    {<<0, 0>>, <<1, 0>>, <<2, 0>>, <<0, 1>>, <<1, 1>>, <<0, 2>>, <<2, 2>>, <<-2, -2>>}

\* Program::new, with a text at hand for from_str
StoreInit ==
    /\ text \in StoreTexts
    /\ driver_program = NewProgram
    /\ puts = <<>>
    /\ ide_state = IDEStateNew
    /\ pc = "new"
    /\ last = [op |-> "Program::new"]
    /\ execution = NewExecution(NewProgram, <<>>, "vec")
    /\ run_entry = FALSE
    /\ run_steps = 0
    /\ run_result = Pending

\* Program::from_str(text): the cells it sets are the history
CallFromStr ==
    /\ pc = "new"
    /\ \E program \in FromStrOutcomes(text) :
          /\ driver_program' = program
          /\ puts' = program
    /\ pc' = "loaded"
    /\ last' = [op |-> "from_str"]
    /\ UNCHANGED <<ide_state, text, execution, run_entry, run_steps, run_result>>

\* program.set(&pos, c)
CallSet ==
    \E pos \in StorePositions, c \in StoreChars :
       /\ driver_program' = Set(driver_program, pos, c)
       /\ puts' = [q \in (DOMAIN puts) \cup {pos} |-> IF q = pos THEN c ELSE puts[q]]
       /\ pc' = "edited"
       /\ last' = [op |-> "set", before |-> driver_program, pos |-> pos, c |-> c]
       /\ UNCHANGED <<ide_state, text, execution, run_entry, run_steps, run_result>>

\* program.get(&pos)
CallGet ==
    \E pos \in GetPositions :
       /\ last' = [op |-> "get", pos |-> pos, result |-> Get(driver_program, pos)]
       /\ UNCHANGED <<ide_state, text, execution, pc, run_entry, run_steps, run_result,
                      driver_program, puts>>

\* program.view(&upper_left, &lower_right).collect_vec()
CallView ==
    \E upper_left \in ViewUpperLefts, lower_right \in ViewLowerRights :
       /\ last' = [op |-> "view", upper_left |-> upper_left, lower_right |-> lower_right,
                   result |-> View(driver_program, upper_left, lower_right)]
       /\ UNCHANGED <<ide_state, text, execution, pc, run_entry, run_steps, run_result,
                      driver_program, puts>>

\* program.extent()
CallExtent ==
    /\ last' = [op |-> "extent", result |-> Extent(driver_program)]
    /\ UNCHANGED <<ide_state, text, execution, pc, run_entry, run_steps, run_result,
                   driver_program, puts>>

StoreNext == CallFromStr \/ CallSet \/ CallGet \/ CallView \/ CallExtent

SpecStore == StoreInit /\ [][StoreNext]_vars

----------------------------------------------------------------------------
(* C13 *)

\* the characters of this model
Chars == 0..9472

\* C13: get returns a character for every position, whatever was set before,
\* and the space character for a position that was never set.
C13_GetTotal ==
    last.op = "get" =>
       /\ last.result \in Chars
       /\ last.pos \notin DOMAIN puts => last.result = ChSpace

\* get(1, 2) returned space after other cells were set, (1, 2) never
C13_Witness ==
    /\ last.op = "get"
    /\ last.pos = <<1, 2>>
    /\ <<1, 2>> \notin DOMAIN puts
    /\ <<0, 0>> \in DOMAIN puts
    /\ <<-1, 0>> \in DOMAIN puts
    /\ last.result = ChSpace

----------------------------------------------------------------------------
(* C14 *)

\* C14: after set(pos, c), get(pos) is c, whether pos was set before or not
\* and also when c is the space, and get(q) is what it was for every other
\* position q.
C14_SetWrites ==
    last.op = "set" =>
       /\ Get(driver_program, last.pos) = last.c
       /\ \A q \in (GetPositions \cup DOMAIN last.before
                      \cup DOMAIN driver_program) \ {last.pos} :
             Get(driver_program, q) = Get(last.before, q)

\* set wrote a space over the '1' that from_str put at (0, 0)
C14_Witness ==
    /\ last.op = "set"
    /\ last.pos = <<0, 0>>
    /\ last.c = ChSpace
    /\ Get(last.before, <<0, 0>>) = Digit(1)
    /\ Get(driver_program, <<0, 0>>) = ChSpace
    /\ Get(driver_program, <<1, 0>>) = Digit(2)

----------------------------------------------------------------------------
(* C15 *)

\* the row of the i-th character of the text: the newlines before it
SourceRow(i) == Cardinality({j \in 1..(i - 1) : text[j] = ChNewline})

\* the column of the i-th character of the text: the characters between it
\* and the newline before it
SourceColumn(i) ==
    LET newlines == {j \in 1..(i - 1) : text[j] = ChNewline}
        start    == IF newlines = {} THEN 0
                    ELSE CHOOSE j \in newlines : \A k \in newlines : k <= j
    IN  i - start - 1

SourcePosition(i) == <<SourceColumn(i), SourceRow(i)>>

\* the i-th character of the text is a newline, or the carriage return of a
\* "\r\n"
LineEnding(i) ==
    \/ text[i] = ChNewline
    \/ text[i] = ChReturn /\ i < Len(text) /\ text[i + 1] = ChNewline

\* the i-th character is a carriage return that ends the text
FinalReturn(i) == i = Len(text) /\ text[i] = ChReturn

\* the characters of the lines, when lines are what lies between newlines
SplitOnNewline == {i \in 1..Len(text) : text[i] # ChNewline}

\* the characters of the lines of str::lines; keep: a carriage return that
\* ends the text is one of them
SplitAsLines(keep) ==
    {i \in 1..Len(text) : ~LineEnding(i) /\ (keep \/ ~FinalReturn(i))}

\* the program has the characters of the text numbered in chars, each at its
\* column and row, and no other cell
Placed(chars) ==
    /\ DOMAIN driver_program = {SourcePosition(i) : i \in chars}
    /\ \A i \in chars : Get(driver_program, SourcePosition(i)) = text[i]

\* C15 as stated: the program built from a text has the character at column
\* col of line row at Position(col, row), for every character of every line
\* when lines are split on newline, and no other cell.
C15_FromStrPlacement == pc = "loaded" => Placed(SplitOnNewline)

\* C15, amended: the same with the lines of str::lines, where the carriage
\* return of a "\r\n" is part of the line ending, and a carriage return that
\* ends the text is or is not, depending on the standard library.
C15_FromStrPlacementLines ==
    pc = "loaded" => \E keep \in BOOLEAN : Placed(SplitAsLines(keep))

\* "1\r\n2" was built: '1' at (0, 0), '2' at (0, 1), nothing at (1, 0)
C15_Witness ==
    /\ pc = "loaded"
    /\ text = <<Digit(1), ChReturn, ChNewline, Digit(2)>>
    /\ driver_program = (<<0, 0>> :> Digit(1)) @@ (<<0, 1>> :> Digit(2))

----------------------------------------------------------------------------
(* C16 *)

\* the lower right corner of the rectangle that the characters numbered in
\* chars occupy
Corner(chars) ==
    <<CHOOSE x \in {SourceColumn(i) : i \in chars} :
         \A i \in chars : SourceColumn(i) <= x,
      CHOOSE y \in {SourceRow(i) : i \in chars} :
         \A i \in chars : SourceRow(i) <= y>>

\* line y of the text, made of the characters numbered in chars
SourceLine(chars, y) ==
    LET is == {i \in chars : SourceRow(i) = y}
    IN  [k \in 1..Cardinality(is) |-> text[CHOOSE i \in is : SourceColumn(i) = k - 1]]

\* the characters that a view yielded for row y, in the order yielded
ViewRow(pairs, y) ==
    LET row == SelectSeq(pairs, LAMBDA pair : pair[1][2] = y)
    IN  [k \in 1..Len(row) |-> row[k][2]]

\* line followed by spaces up to width characters
Padded(line, width) ==
    [k \in 1..width |-> IF k <= Len(line) THEN line[k] ELSE ChSpace]

\* the last call viewed the rectangle from (0, 0) to corner of the program as
\* from_str built it
ReadBack(corner) ==
    /\ pc = "loaded"
    /\ last.op = "view"
    /\ last.upper_left = <<0, 0>>
    /\ last.lower_right = corner

\* C16 as stated: reading back the rectangle that a text occupies, row by
\* row, gives the lines of the text exactly.
C16_TextRoundTrip ==
    SplitOnNewline # {} /\ ReadBack(Corner(SplitOnNewline)) =>
       \A y \in 0..last.lower_right[2] :
          ViewRow(last.result, y) = SourceLine(SplitOnNewline, y)

\* C16, amended: reading back the rectangle that a text occupies, row by row,
\* gives each line of the text (a line of str::lines) followed by spaces up
\* to the length of the longest line.
C16_TextRoundTripPadded ==
    \A keep \in BOOLEAN :
       LET chars == SplitAsLines(keep)
       IN  chars # {} /\ Placed(chars) /\ ReadBack(Corner(chars)) =>
              \A y \in 0..last.lower_right[2] :
                 ViewRow(last.result, y) =
                    Padded(SourceLine(chars, y), last.lower_right[1] + 1)

\* "12\n3" was read back as "12" and "3 "
C16_Witness ==
    /\ text = <<Digit(1), Digit(2), ChNewline, Digit(3)>>
    /\ ReadBack(<<1, 1>>)
    /\ ViewRow(last.result, 0) = <<Digit(1), Digit(2)>>
    /\ ViewRow(last.result, 1) = <<Digit(3), ChSpace>>

----------------------------------------------------------------------------
(* C17 *)

\* p is before q in the order of Positions: by x, and by y where x is equal
Before(p, q) == p[1] < q[1] \/ (p[1] = q[1] /\ p[2] < q[2])

\* C17: extent returns none when no cell was set, (p, p) when p is the only
\* cell set, and otherwise the pair of the minimal and the maximal Position
\* among the cells set.
C17_Extent ==
    last.op = "extent" =>
       LET keys == DOMAIN puts
       IN  /\ keys = {} => last.result = None
           /\ \A p \in keys : keys = {p} => last.result = Some(<<p, p>>)
           /\ Cardinality(keys) > 1 =>
                 /\ last.result.kind = "Some"
                 /\ last.result.value[1] \in keys
                 /\ last.result.value[2] \in keys
                 /\ \A q \in keys : ~Before(q, last.result.value[1])
                 /\ \A q \in keys : ~Before(last.result.value[2], q)

\* the cells (0, 0) and (1, 2) were set, and extent returned ((0, 0), (1, 2))
C17_Witness ==
    /\ last.op = "extent"
    /\ DOMAIN puts = {<<0, 0>>, <<1, 2>>}
    /\ last.result = Some(<<<<0, 0>>, <<1, 2>>>>)

----------------------------------------------------------------------------
(* C18 *)

\* C18: view of a rectangle w columns wide and h rows high yields w * h
\* pairs, the k-th one for the cell in column (k - 1) mod w and row
\* (k - 1) div w of the rectangle, with the char that get returns for it,
\* which is the space for a cell never set.
C18_ViewRowMajor ==
    last.op = "view" =>
       LET w == last.lower_right[1] - last.upper_left[1] + 1
           h == last.lower_right[2] - last.upper_left[2] + 1
       IN  w >= 0 /\ h >= 0 =>
              /\ Len(last.result) = w * h
              /\ \A k \in 1..(w * h) :
                    LET pos == <<last.upper_left[1] + ((k - 1) % w),
                                 last.upper_left[2] + ((k - 1) \div w)>>
                    IN  /\ last.result[k][1] = pos
                        /\ last.result[k][2] = Get(driver_program, pos)
                        /\ pos \notin DOMAIN puts => last.result[k][2] = ChSpace

\* view of (-1, -1)..(1, 1) yielded nine pairs, the fifth for the '.' set at
\* (0, 0), the others for cells never set
C18_Witness ==
    /\ last.op = "view"
    /\ last.upper_left = <<-1, -1>>
    /\ last.lower_right = <<1, 1>>
    /\ DOMAIN puts = {<<0, 0>>, <<1, 2>>}
    /\ Len(last.result) = 9
    /\ last.result[1] = <<<<-1, -1>>, ChSpace>>
    /\ last.result[2] = <<<<0, -1>>, ChSpace>>
    /\ last.result[4] = <<<<-1, 0>>, ChSpace>>
    /\ last.result[5] = <<<<0, 0>>, ChOutInt>>
    /\ last.result[9] = <<<<1, 1>>, ChSpace>>

----------------------------------------------------------------------------
(* C19 *)

\* C19: reset() leaves the pointer, the stack, the string mode flag, the
\* instruction counter and the terminated flag as a fresh engine has them,
\* and the program, the output written and the input left as they were.
C19_Reset ==
    last.op = "reset" =>
       LET fresh == NewExecution(FromStr(text), <<>>, "vec")
       IN  /\ execution.pointer = [position |-> <<0, 0>>, direction |-> "Right"]
           /\ execution.stack = <<>>
           /\ execution.string_mode = FALSE
           /\ execution.instruction_count = 0
           /\ execution.terminated = FALSE
           /\ execution.pointer = fresh.pointer
           /\ execution.stack = fresh.stack
           /\ execution.string_mode = fresh.string_mode
           /\ execution.instruction_count = fresh.instruction_count
           /\ execution.terminated = fresh.terminated
           /\ execution.program = last.before.program
           /\ execution.output = last.before.output
           /\ execution.input = last.before.input
           /\ execution.sink = last.before.sink

\* reset() of the engine that ran "~:,12p7@" on the input "5" to its end: the
\* '5' put at (1, 2) and the output "5" stay, the input stays consumed
C19_Witness ==
    /\ last.op = "reset"
    /\ text = ReadWritePut
    /\ last.before.terminated
    /\ last.before.instruction_count = 8
    /\ last.before.stack = <<7>>
    /\ last.before.input = <<>>
    /\ execution.program # FromStr(text)
    /\ Get(execution.program, <<1, 2>>) = 53
    /\ execution.output = <<53>>
    /\ execution.input = <<>>
    /\ execution.stack = <<>>
    /\ ~execution.terminated

----------------------------------------------------------------------------
(* C20 *)
(* Scenario: the quine, run to termination from a fresh engine with empty  *)
(* input and a Vec<u8> as output (tests::quine)                            *)

\* 01->1# +# :# 0# g# ,# :# 5# 8# *# 4# +# -# _@
QUINE ==
    << 48, 49, 45, 62, 49, 35, 32, 43, 35, 32, 58, 35, 32, 48, 35, 32, 103, 35,
       32, 44, 35, 32, 58, 35, 32, 53, 35, 32, 56, 35, 32, 42, 35, 32, 52, 35,
       32, 43, 35, 32, 45, 35, 32, 95, 64 >>

\* the text as it is, or with the newline that ends a file
QuineInit ==
    \E t \in {QUINE, QUINE \o <<ChNewline>>} :
       Construct([text |-> t, input |-> <<>>, sink |-> "vec"])

QuineNext == RunFresh \/ RunIteration \/ RunReturn

\* run() keeps stepping while its loop condition holds
SpecQuine == QuineInit /\ [][QuineNext]_vars /\ WF_vars(QuineNext)

\* run() has returned Ok with the text of the quine as output
QuineDone ==
    /\ last.op = "return"
    /\ run_result = Ok
    /\ execution.terminated
    /\ execution.output = QUINE

\* C20: the quine, run with empty input, terminates: no step fails or panics,
\* run() returns Ok, and the output is then the text of the program, byte for
\* byte, with no newline after it.
C20_Quine ==
    /\ [](pc # "panicked" /\ run_result \in {Pending, Ok})
    /\ <>[]QuineDone

\* run() has returned, after the step that executed the '@' at (44, 0) with
\* the whole text written
C20_Witness ==
    /\ QuineDone
    /\ execution.pointer.position = <<44, 0>>
    /\ Len(execution.output) = 45
    /\ execution.output[45] = ChEnd

----------------------------------------------------------------------------
(* C21 *)
(* Scenario: the sieve of Eratosthenes, run to termination from a fresh    *)
(* engine with empty input and a Vec<u8> as output                         *)
(* (tests::sieve_of_eratosthenes)                                          *)

\* 2>:3g" "-!v\  g30          <
\*  |!`"O":+1_:.:03p>03g+:"O"`|
\*  @               ^  p3\" ":<
\* 2 234567890123456789012345678901234567890123456789012345678901234567890123456789
SIEVE_OF_ERATOSTHENES ==
    << 50, 62, 58, 51, 103, 34, 32, 34, 45, 33, 118, 92, 32, 32, 103, 51, 48,
       32, 32, 32, 32, 32, 32, 32, 32, 32, 32, 60, 10, 32, 124, 33, 96, 34, 79,
       34, 58, 43, 49, 95, 58, 46, 58, 48, 51, 112, 62, 48, 51, 103, 43, 58,
       34, 79, 34, 96, 124, 10, 32, 64, 32, 32, 32, 32, 32, 32, 32, 32, 32, 32,
       32, 32, 32, 32, 32, 94, 32, 32, 112, 51, 92, 34, 32, 34, 58, 60, 10, 50,
       32, 50, 51, 52, 53, 54, 55, 56, 57, 48, 49, 50, 51, 52, 53, 54, 55, 56,
       57, 48, 49, 50, 51, 52, 53, 54, 55, 56, 57, 48, 49, 50, 51, 52, 53, 54,
       55, 56, 57, 48, 49, 50, 51, 52, 53, 54, 55, 56, 57, 48, 49, 50, 51, 52,
       53, 54, 55, 56, 57, 48, 49, 50, 51, 52, 53, 54, 55, 56, 57, 48, 49, 50,
       51, 52, 53, 54, 55, 56, 57, 10 >>

\* "2357111317192329313741434753596167717379"
SieveOutput ==
    << 50, 51, 53, 55, 49, 49, 49, 51, 49, 55, 49, 57, 50, 51, 50, 57, 51, 49,
       51, 55, 52, 49, 52, 51, 52, 55, 53, 51, 53, 57, 54, 49, 54, 55, 55, 49,
       55, 51, 55, 57 >>

SieveInit == Construct([text |-> SIEVE_OF_ERATOSTHENES, input |-> <<>>, sink |-> "vec"])

SieveNext == RunFresh \/ RunIteration \/ RunReturn

\* run() keeps stepping while its loop condition holds
SpecSieve == SieveInit /\ [][SieveNext]_vars /\ WF_vars(SieveNext)

\* run() has returned Ok with the primes below 80 as output
SieveDone ==
    /\ last.op = "return"
    /\ run_result = Ok
    /\ execution.terminated
    /\ execution.output = SieveOutput

\* C21: the sieve, run with empty input, terminates: no step fails or panics,
\* run() returns Ok, and the output is then exactly
\* 2357111317192329313741434753596167717379.
C21_Sieve ==
    /\ [](pc # "panicked" /\ run_result \in {Pending, Ok})
    /\ <>[]SieveDone

\* run() has returned after the '@' at (1, 2): the program has struck the
\* multiples out of its fourth line, 79 was the last number written
C21_Witness ==
    /\ SieveDone
    /\ execution.pointer.position = <<1, 2>>
    /\ execution.program # FromStr(text)
    /\ Get(execution.program, <<4, 3>>) = ChSpace
    /\ Get(execution.program, <<79, 3>>) = Digit(9)
    /\ execution.output[Len(execution.output)] = Digit(9)

----------------------------------------------------------------------------
(* C22 *)

\* the blank bytes: space, tab, newline, vertical tab, form feed, return
Blank(b) == b \in (9..13) \cup {32}

RECURSIVE BlanksSkipped(_)
\* bytes without its leading blanks
BlanksSkipped(bytes) ==
    IF bytes # <<>> /\ Blank(bytes[1]) THEN BlanksSkipped(Tail(bytes)) ELSE bytes

RECURSIVE TokenLength(_)
\* the number of bytes before the first blank
TokenLength(bytes) ==
    IF bytes = <<>> \/ Blank(bytes[1]) THEN 0 ELSE 1 + TokenLength(Tail(bytes))

\* the first blank-delimited token of bytes
FirstToken(bytes) ==
    SubSeq(BlanksSkipped(bytes), 1, TokenLength(BlanksSkipped(bytes)))

\* what follows the first token
AfterFirstToken(bytes) ==
    SubSeq(BlanksSkipped(bytes), TokenLength(BlanksSkipped(bytes)) + 1,
           Len(BlanksSkipped(bytes)))

\* token is a decimal integer: digits, after an optional sign
IsDecimal(token) ==
    LET digits == IF token # <<>> /\ token[1] \in {ChAdd, ChSub} THEN Tail(token) ELSE token
    IN  digits # <<>> /\ \A i \in 1..Len(digits) : digits[i] \in ChZero..ChNine

RECURSIVE DecimalValue(_)
\* the value of a decimal integer
DecimalValue(token) ==
    IF token = <<>> THEN 0
    ELSE IF token[1] = ChSub THEN -DecimalValue(Tail(token))
    ELSE IF token[1] = ChAdd THEN DecimalValue(Tail(token))
    ELSE DecimalValue(SubSeq(token, 1, Len(token) - 1)) * 10 + (token[Len(token)] - ChZero)

\* C22: a '&' step on an input whose first blank-delimited token is a decimal
\* integer returns Ok, pushes the value of that token and leaves what follows
\* the token in the input, for later input instructions.
C22_InputIntOneToken ==
    (Dispatched(ChInInt) /\ IsDecimal(FirstToken(last.before.input))) =>
       /\ last.result = Ok
       /\ execution.stack = Append(last.before.stack, DecimalValue(FirstToken(last.before.input)))
       /\ execution.input = AfterFirstToken(last.before.input)

\* the first '&' of "&&" on the input "1 2" has panicked: "1 2" is not an
\* integer
C22_Witness ==
    /\ Dispatched(ChInInt)
    /\ text = <<ChInInt, ChInInt>>
    /\ last.before.input = <<49, 32, 50>>
    /\ last.before.instruction_count = 0
    /\ last.result = Panic
    /\ pc = "panicked"
    /\ execution.stack = <<>>

----------------------------------------------------------------------------
(* C23 *)

\* the bytes are ASCII characters
IsAscii(bytes) == \A i \in 1..Len(bytes) : bytes[i] < 128

\* C23: a '~' step on an input that is not empty (ASCII bytes, for one)
\* returns Ok, pushes the first byte of the input and leaves the bytes after
\* it in the input, for later input instructions.
C23_InputCharOneByte ==
    (Dispatched(ChInChar) /\ last.before.input # <<>> /\ IsAscii(last.before.input)) =>
       /\ last.result = Ok
       /\ execution.stack = Append(last.before.stack, last.before.input[1])
       /\ execution.input = Tail(last.before.input)

\* the second '~' of "~~" on the input "ab" has panicked: the first one
\* pushed 97 and took the 'b' as well
C23_Witness ==
    /\ Dispatched(ChInChar)
    /\ text = <<ChInChar, ChInChar>>
    /\ last.before.instruction_count = 1
    /\ last.before.stack = <<97>>
    /\ last.before.input = <<>>
    /\ last.result = Panic
    /\ pc = "panicked"

----------------------------------------------------------------------------
(* C24 *)

\* the failure values of step()
IsFailure(result) ==
    result \in {OutputFailed, InputFailed} \/ result.kind = "UnrecognizedInstruction"

\* C24: a '&' step on an input that is empty or is not a decimal integer, and
\* a '~' step on an empty input, return a failure value to the caller; they
\* do not abort.
C24_InputFailuresReported ==
    /\ (Dispatched(ChInInt) /\ ~IsDecimal(FirstToken(last.before.input))) =>
          last.result # Panic /\ IsFailure(last.result)
    /\ (Dispatched(ChInChar) /\ last.before.input = <<>>) =>
          last.result # Panic /\ IsFailure(last.result)

\* '&' on the input "ab" has panicked
C24_Witness ==
    /\ Dispatched(ChInInt)
    /\ last.before.input = <<97, 98>>
    /\ last.result = Panic
    /\ pc = "panicked"
    /\ execution.instruction_count = last.before.instruction_count + 1

----------------------------------------------------------------------------
(* C25 *)

\* the value a pop takes from stack: its top, 0 when it is empty
Popped(stack) == IF stack = <<>> THEN 0 ELSE stack[Len(stack)]

\* the stack without its top; the empty stack stays empty
Below1(stack) == IF stack = <<>> THEN <<>> ELSE SubSeq(stack, 1, Len(stack) - 1)

\* the last step() popped one value and headed zero if it was 0 (the 0 of an
\* empty stack included) and nonzero if not, then moved one cell that way
Branched(zero, nonzero) ==
    LET dir == IF Popped(last.before.stack) = 0 THEN zero ELSE nonzero
    IN  /\ last.result = Ok
        /\ execution.stack = Below1(last.before.stack)
        /\ execution.pointer.direction = dir
        /\ execution.pointer.position = Ahead(last.before.pointer.position, dir, 1)

\* C25: '_' pops a and heads Right if a = 0, else Left; '|' pops a and heads
\* Down if a = 0, else Up; an empty stack gives a = 0; the pointer then moves
\* one cell in the new direction.
C25_Conditionals ==
    /\ Dispatched(ChHorizontalIf) => Branched("Right", "Left")
    /\ Dispatched(ChVerticalIf) => Branched("Down", "Up")

\* '|' at (2, 0) popped the 7 of [2 7] and the pointer went up to (2, -1)
C25_Witness ==
    /\ Dispatched(ChVerticalIf)
    /\ last.before.stack = <<2, 7>>
    /\ last.before.pointer.position = <<2, 0>>
    /\ execution.stack = <<2>>
    /\ execution.pointer = [position |-> <<2, -1>>, direction |-> "Up"]

----------------------------------------------------------------------------
(* C26 *)

\* C26: a '#' step leaves the pointer two cells further along its direction,
\* which it does not change, and leaves the stack as it is; the cell behind
\* the '#' is not executed: the step changes nothing but the pointer and the
\* counter, whatever that cell holds.
C26_Bridge ==
    Dispatched(ChBridge) =>
       /\ last.result = Ok
       /\ execution.pointer.direction = last.before.pointer.direction
       /\ execution.pointer.position =
             Ahead(last.before.pointer.position, last.before.pointer.direction, 2)
       /\ execution.stack = last.before.stack
       /\ execution = [last.before EXCEPT
                          !.pointer = execution.pointer,
                          !.instruction_count = last.before.instruction_count + 1]

\* the '#' at (2, 2), executed heading Left, has taken the pointer over the
\* 'z' at (1, 2) to the '@' at (0, 2)
C26_Witness ==
    /\ Dispatched(ChBridge)
    /\ text = BridgeLeft
    /\ last.before.pointer = [position |-> <<2, 2>>, direction |-> "Left"]
    /\ Get(execution.program, <<1, 2>>) = 122
    /\ execution.pointer = [position |-> <<0, 2>>, direction |-> "Left"]
    /\ Get(execution.program, execution.pointer.position) = ChEnd
    /\ ~execution.terminated

----------------------------------------------------------------------------
(* C27 *)

\* C27: whatever the last operation was, if it found terminated false and
\* left it true then it was a step() that executed '@' outside string mode.
C27_TerminatedOnlyByEnd ==
    (~last.before.terminated /\ execution.terminated) =>
       (last.op = "step" /\ ~last.before.string_mode
          /\ Get(last.before.program, last.before.pointer.position) = ChEnd)

\* a step() on an '@' that was not the first instruction has set terminated
C27_Witness ==
    /\ last.op = "step"
    /\ Get(last.before.program, last.before.pointer.position) = ChEnd
    /\ ~last.before.string_mode
    /\ ~last.before.terminated
    /\ execution.terminated
    /\ last.before.instruction_count > 0

----------------------------------------------------------------------------
(* C28 *)

\* C28: for a divisor a # 0 (popped first) and a dividend b (popped second),
\* '/' pushes the quotient q truncated toward zero and '%' the remainder r
\* with the sign of b: b = q * a + r, |r| < |a|, and r is 0 or has the sign
\* of b; for b = -7 and a = 2, q = -3 and r = -1 (not -4 and 1).
C28_TruncatedDivision ==
    LET a == Popped(last.before.stack)
        b == Popped(Below1(last.before.stack))
        v == execution.stack[Len(execution.stack)]
        q == IF Dispatched(ChDiv) THEN v ELSE (b - v) \div a
        r == IF Dispatched(ChDiv) THEN b - v * a ELSE v
    IN  ((Dispatched(ChDiv) \/ Dispatched(ChMod)) /\ a # 0) =>
           /\ last.result = Ok
           /\ execution.stack = Append(Below1(Below1(last.before.stack)), v)
           /\ b = q * a + r
           /\ (IF r < 0 THEN -r ELSE r) < (IF a < 0 THEN -a ELSE a)
           /\ r = 0 \/ (r < 0) = (b < 0)
           /\ (b = -7 /\ a = 2) => (q = -3 /\ r = -1)

\* '%' on [-7 2] has pushed -1
C28_Witness ==
    /\ Dispatched(ChMod)
    /\ last.before.stack = <<-7, 2>>
    /\ execution.stack = <<-1>>

----------------------------------------------------------------------------
(* C29 *)

\* the character at column x of line y of the text; the space where the text
\* has none
TextAt(x, y) ==
    LET at == {i \in 1..Len(text) : text[i] # ChNewline /\ SourcePosition(i) = <<x, y>>}
    IN  IF at = {} THEN ChSpace ELSE text[CHOOSE i \in at : TRUE]

\* C29: a step that moves the pointer changes x by +1 heading Right and by -1
\* heading Left, y by +1 heading Down and by -1 heading Up (twice that for
\* '#'); y is the index of the text line: after a 'v' step at (x, y) the cell
\* under the pointer is the character at column x of line y + 1 of the text,
\* after a '^' step the one of line y - 1.
C29_AxisOrientation ==
    LET x == last.before.pointer.position[1]
        y == last.before.pointer.position[2]
        n == IF Dispatched(ChBridge) THEN 2 ELSE 1
        d == execution.pointer.direction
    IN  /\ Completed =>
             execution.pointer.position =
                <<x + (IF d = "Right" THEN n ELSE IF d = "Left" THEN -n ELSE 0),
                  y + (IF d = "Down" THEN n ELSE IF d = "Up" THEN -n ELSE 0)>>
        /\ (Dispatched(ChDown) /\ execution.program = driver_program) =>
              /\ execution.pointer.position = <<x, y + 1>>
              /\ Get(execution.program, execution.pointer.position) = TextAt(x, y + 1)
        /\ (Dispatched(ChUp) /\ execution.program = driver_program) =>
              /\ execution.pointer.position = <<x, y - 1>>
              /\ Get(execution.program, execution.pointer.position) = TextAt(x, y - 1)

\* the '^' at (1, 3), the second character of the fourth line, has taken the
\* pointer to the '#' that is the second character of the third line
C29_Witness ==
    /\ Dispatched(ChUp)
    /\ text = BridgeUp
    /\ last.before.pointer.position = <<1, 3>>
    /\ execution.pointer.position = <<1, 2>>
    /\ TextAt(1, 2) = ChBridge
    /\ Get(execution.program, execution.pointer.position) = ChBridge

----------------------------------------------------------------------------
(* C30 *)

\* C30: '\' exchanges the two values on top of the stack and leaves those
\* below; [x] becomes [x 0], and the empty stack becomes [0 0].
C30_Swap ==
    Dispatched(ChSwap) =>
       LET before == last.before.stack
           n      == Len(before)
       IN  /\ last.result = Ok
           /\ n >= 2 => execution.stack =
                 SubSeq(before, 1, n - 2) \o <<before[n], before[n - 1]>>
           /\ n = 1 => execution.stack = <<before[1], 0>>
           /\ n = 0 => execution.stack = <<0, 0>>

\* '\' on [9 1 0] has left [9 0 1]
C30_Witness ==
    /\ Dispatched(ChSwap)
    /\ last.before.stack = <<9, 1, 0>>
    /\ execution.stack = <<9, 0, 1>>

----------------------------------------------------------------------------
(* C31 *)

\* C31: a '?' step returns Ok with the pointer heading Up, Down, Left or
\* Right and one cell further in that direction, and with the stack, the
\* program and the output as they were; wherever a '?' is about to be
\* executed, each of the four directions is the outcome of some step.
C31_RandomDirection ==
    /\ Dispatched(ChRandom) =>
          /\ last.result = Ok
          /\ execution.pointer.direction \in {"Up", "Down", "Left", "Right"}
          /\ execution.pointer.position =
                Ahead(last.before.pointer.position, execution.pointer.direction, 1)
          /\ execution.stack = last.before.stack
          /\ execution.program = last.before.program
          /\ execution.output = last.before.output
    /\ (~execution.string_mode
          /\ Get(execution.program, execution.pointer.position) = ChRandom) =>
          \A d \in {"Up", "Down", "Left", "Right"} :
             \E o \in Step(execution) :
                o.result = Ok /\ o.state.pointer.direction = d

\* the '?' at (2, 0) has sent the pointer up to (2, -1), the stack still [7 2]
C31_Witness ==
    /\ Dispatched(ChRandom)
    /\ last.before.pointer.position = <<2, 0>>
    /\ last.before.stack = <<7, 2>>
    /\ execution.pointer = [position |-> <<2, -1>>, direction |-> "Up"]
    /\ execution.stack = <<7, 2>>

----------------------------------------------------------------------------
(* C32 *)
(* A driver that sets cells of a new Program and renders the Program in    *)
(* the window that extent() gives: view(ul, lr)                            *)

\* the cells set: (0, 5) and (1, 0), and the origin
WindowPositions == {<<0, 5>>, <<1, 0>>, <<0, 0>>}

\* Program::new
WindowInit ==
    /\ text = <<>>
    /\ driver_program = NewProgram
    /\ puts = <<>>
    /\ ide_state = IDEStateNew
    /\ pc = "new"
    /\ last = [op |-> "Program::new"]
    /\ execution = NewExecution(NewProgram, <<>>, "vec")
    /\ run_entry = FALSE
    /\ run_steps = 0
    /\ run_result = Pending

\* program.set(&pos, c)
SetWindowCell ==
    \E pos \in WindowPositions, c \in StoreChars :
       /\ driver_program' = Set(driver_program, pos, c)
       /\ puts' = [q \in (DOMAIN puts) \cup {pos} |-> IF q = pos THEN c ELSE puts[q]]
       /\ pc' = "edited"
       /\ last' = [op |-> "set", before |-> driver_program, pos |-> pos, c |-> c]
       /\ UNCHANGED <<ide_state, text, execution, run_entry, run_steps, run_result>>

\* if let Some((ul, lr)) = program.extent() { program.view(&ul, &lr).collect_vec() }
RenderExtent ==
    LET extent == Extent(driver_program)
    IN  /\ last' = [op |-> "render", extent |-> extent,
                    result |-> IF extent = None THEN <<>>
                               ELSE View(driver_program, extent.value[1], extent.value[2])]
        /\ UNCHANGED <<ide_state, text, execution, pc, run_entry, run_steps, run_result,
                       driver_program, puts>>

WindowNext == SetWindowCell \/ RenderExtent

SpecWindow == WindowInit /\ [][WindowNext]_vars

\* C32: for a Program that is not empty, the pair (ul, lr) that extent()
\* returns bounds every occupied cell p: ul.x <= p.x <= lr.x and
\* ul.y <= p.y <= lr.y; so view(ul, lr) yields every occupied cell.
C32_ExtentIsBoundingWindow ==
    (last.op = "render" /\ DOMAIN puts # {}) =>
       /\ last.extent.kind = "Some"
       /\ LET ul == last.extent.value[1]
              lr == last.extent.value[2]
          IN  \A p \in DOMAIN puts :
                 /\ ul[1] <= p[1] /\ p[1] <= lr[1]
                 /\ ul[2] <= p[2] /\ p[2] <= lr[2]
                 /\ \E k \in 1..Len(last.result) : last.result[k][1] = p

\* with exactly the cells (0, 5) and (1, 0) set, extent() has returned
\* ((0, 5), (1, 0)) and view of that has yielded nothing
C32_Witness ==
    /\ last.op = "render"
    /\ DOMAIN puts = {<<0, 5>>, <<1, 0>>}
    /\ last.extent = Some(<<<<0, 5>>, <<1, 0>>>>)
    /\ last.result = <<>>

----------------------------------------------------------------------------
(* C33 *)

\* C33: a step() that fails with UnrecognizedInstruction adds 1 to the
\* instruction counter and changes nothing else: pointer, stack, string mode
\* flag, program, output and terminated, which is false, are as before; a
\* step() called again fails with the same position and character and adds 1
\* to the counter again.
C33_UnrecognizedChangesNothing ==
    (Stepped /\ last.result.kind = "UnrecognizedInstruction") =>
       /\ last.result.position = last.before.pointer.position
       /\ last.result.instruction = Cell
       /\ execution.pointer = last.before.pointer
       /\ execution.stack = last.before.stack
       /\ execution.string_mode = last.before.string_mode
       /\ execution.program = last.before.program
       /\ execution.output = last.before.output
       /\ execution.terminated = last.before.terminated
       /\ ~execution.terminated
       /\ execution.instruction_count = last.before.instruction_count + 1
       /\ \A o \in Step(execution) :
             /\ o.result = last.result
             /\ o.state = [execution EXCEPT !.instruction_count = @ + 1]

\* the second step() on the U+2500 at (3, 0) has failed as the first did
C33_Witness ==
    /\ Stepped
    /\ last.result = UnrecognizedInstruction(<<3, 0>>, 9472)
    /\ last.before.instruction_count = 4
    /\ execution.instruction_count = 5
    /\ execution.pointer.position = <<3, 0>>
    /\ execution.stack = <<9, 1, 0>>

----------------------------------------------------------------------------
(* C34 *)

\* the last step() was a '.' or ',' whose write the sink rejected
WriteRejected ==
    /\ Stepped
    /\ last.result = OutputFailed

\* the last step() left the pointer where it was, the operand popped and the
\* counter incremented
OperandLost ==
    /\ Dispatched(ChOutInt) \/ Dispatched(ChOutChar)
    /\ execution.pointer = last.before.pointer
    /\ execution.stack = Below1(last.before.stack)
    /\ execution.instruction_count = last.before.instruction_count + 1

\* what a '.' or ',' step writes for the value on top of stack
Written(stack) ==
    IF Cell = ChOutInt THEN FormatInt(Popped(stack)) ELSE EncodeUtf8(Popped(stack) % 256)

\* C34 as stated: when the sink rejects the write of a '.' or ',' step,
\* step() returns OutputFailed, the pointer does not move, the operand is
\* popped and the counter incremented; so a retry of the step outputs a
\* different value.
C34_OutputFailure ==
    WriteRejected =>
       /\ OperandLost
       /\ Written(execution.stack) # Written(last.before.stack)
       /\ \A o \in Step(execution) :
             o.result = Ok =>
                o.state.output # execution.output \o Written(last.before.stack)

\* C34, amended: the same, but a retry of the step outputs the value that was
\* below the operand (0 on an empty stack), which may or may not differ from
\* the operand.
C34_OutputFailureNextOperand ==
    WriteRejected =>
       /\ OperandLost
       /\ \A o \in Step(execution) :
             o.result = Ok =>
                /\ o.state.output = execution.output \o Written(execution.stack)
                /\ o.state.stack = Below1(Below1(last.before.stack))

\* the write of the '.' at (2, 0) was rejected: of [7 2], the 2 is lost and a
\* retry writes the 7
C34_Witness ==
    /\ WriteRejected
    /\ Dispatched(ChOutInt)
    /\ last.before.stack = <<7, 2>>
    /\ execution.stack = <<7>>
    /\ execution.pointer.position = <<2, 0>>
    /\ execution.instruction_count = 3
    /\ \E o \in Step(execution) : o.result = Ok /\ o.state.output = <<Digit(7)>>

----------------------------------------------------------------------------
(* C35 *)
(* Scenario: run() on a fresh engine whose program holds few cells or     *)
(* none, so that the pointer leaves the loaded text                        *)

\* run() is followed for MaxDrift instructions; a pointer is far from the
\* origin at distance DriftFar
MaxDrift == 30
DriftFar == 20

\* the empty program, one direction instruction, a string begun, a bridge, a
\* loop, and programs that stop at a '@' or at a z
DriftTexts ==
    { <<>>, <<ChDown>>, <<ChLeft>>, <<ChUp>>, <<ChQuote>>, <<ChBridge>>,
      <<ChRight, ChLeft>>, <<ChDown, ChSpace, ChUp>>,
      <<ChSpace, ChSpace, ChEnd>>, <<ChSpace, 122>> }

DriftInit ==
    \E t \in DriftTexts : Construct([text |-> t, input |-> <<>>, sink |-> "vec"])

\* one iteration of the loop of run(), followed up to MaxDrift instructions
DriftLoop == execution.instruction_count < MaxDrift /\ RunIteration

DriftNext == RunFresh \/ DriftLoop \/ RunReturn

\* run() keeps stepping while its loop condition holds
SpecDrift == DriftInit /\ [][DriftNext]_vars /\ WF_vars(DriftNext)

\* no cell of the program lies at the pointer or ahead of it
NothingAhead ==
    LET pos == execution.pointer.position
        dir == execution.pointer.direction
    IN  \A q \in DOMAIN execution.program :
           CASE dir = "Right" -> ~(q[2] = pos[2] /\ q[1] >= pos[1])
             [] dir = "Left"  -> ~(q[2] = pos[2] /\ q[1] <= pos[1])
             [] dir = "Down"  -> ~(q[1] = pos[1] /\ q[2] >= pos[2])
             [] dir = "Up"    -> ~(q[1] = pos[1] /\ q[2] <= pos[2])

\* the pointer path has reached a '@' or a failing cell
Halted == execution.terminated \/ run_result \notin {Pending, Ok}

\* the pointer is at distance DriftFar or more from the origin
Far == Abs(execution.pointer.position[1]) + Abs(execution.pointer.position[2]) >= DriftFar

\* a move lands on the adjacent coordinate (on the next but one for '#'),
\* negative or beyond the text, where the program reads as space
MovedToAdjacent ==
    Completed =>
       /\ execution.pointer.position =
             Ahead(last.before.pointer.position, execution.pointer.direction,
                   IF Dispatched(ChBridge) THEN 2 ELSE 1)
       /\ execution.pointer.position \notin DOMAIN execution.program =>
             Get(execution.program, execution.pointer.position) = ChSpace

\* run() has not returned unless the path reached a '@' or a failing cell
ReturnsOnlyHalted == run_result # Pending => Halted

----------------------------------------------------------------------------
(* Scenario: the IDE (run_ide): a master program, an engine built on a     *)
(* clone of it with empty input and a Vec<u8> as output, and the loop that *)
(* hands key events to handle_key and ticks to handle_tick                 *)

\* '+' is not pressed outside editing mode at MaxIps instructions per second
MaxIps == 11
\* nor '-' at MinIps, where the speed is not what is looked at
MinIps == 10
\* the arrow keys keep view_center within these cells
Views == {<<0, 0>>, <<1, 0>>, <<1, 1>>}
\* characters are typed into these cells
EditCells == {<<0, 0>>}
\* the IDE does not call step() once instruction_count has reached MaxIdeSteps
MaxIdeSteps == 7

\* 1.00pz: writes "1 ", overwrites the cell (0, 0) of the engine's program
\* and fails at the z
IDE_TEXT == <<49, ChOutInt, ChZero, ChZero, ChPut, 122>>

\* i q r space t f + - z
KeyChars == {105, 113, 114, 32, 116, 102, 43, 45, 122}

\* the events event::read() hands to handle_key; "Resize" is no key
Events ==
    {[code |-> "Char", c |-> c] : c \in KeyChars}
        \cup {[code |-> k, c |-> 0] : k \in {"Esc", "Left", "Right", "Up", "Down",
                                              "Enter", "Resize"}}

\* run_ide up to its loop
IDEInit ==
    /\ text = IDE_TEXT
    /\ driver_program = FromStr(text)
    /\ execution = NewExecution(driver_program, <<>>, "vec")
    /\ ide_state = IDEStateNew
    /\ pc = "ide"
    /\ last = [op |-> "run_ide"]
    /\ puts = <<>>
    /\ run_entry = FALSE
    /\ run_steps = 0
    /\ run_result = Pending

\* the cell view_center would be moved to by an arrow key
Target(event) ==
    CASE event.code = "Left" -> Shifted(ide_state.view_center, -1, 0)
      [] event.code = "Right" -> Shifted(ide_state.view_center, 1, 0)
      [] event.code = "Up" -> Shifted(ide_state.view_center, 0, -1)
      [] event.code = "Down" -> Shifted(ide_state.view_center, 0, 1)
      [] OTHER -> ide_state.view_center

\* the bounds on the events
EventWithinBounds(event, slowest) ==
    /\ (event.code = "Char" /\ event.c = 43 /\ ~ide_state.editing) =>
          ide_state.instructions_per_second < MaxIps
    /\ (event.code = "Char" /\ event.c = 45 /\ ~ide_state.editing) =>
          ide_state.instructions_per_second > slowest
    /\ Target(event) \in Views \cup {ide_state.view_center}
    /\ (event.code = "Char" /\ ide_state.editing) => ide_state.view_center \in EditCells
    /\ (event.code = "Char" /\ event.c = 116 /\ ~ide_state.editing) =>
          execution.instruction_count < MaxIdeSteps

\* where the loop of run_ide goes on an outcome
Continued(o) ==
    CASE o.result = "Quit" -> "quit"
      [] o.result = "Panic" -> "panicked"
      [] OTHER -> "ide"

\* history: the cells the editor has written
Edited(event) ==
    IF Captured(ide_state, event)
    THEN [q \in (DOMAIN puts) \cup {ide_state.view_center} |->
             IF q = ide_state.view_center THEN event.c ELSE puts[q]]
    ELSE puts

\* what the IDE held before a handler
Held == [ide_state |-> ide_state, execution |-> execution, program |-> driver_program]

\* poll() reports an event and handle_key handles it
KeyEventOf(events, slowest) ==
    /\ pc = "ide"
    /\ \E event \in events :
          /\ EventWithinBounds(event, slowest)
          /\ \E o \in HandleKey(event, ide_state, execution, driver_program) :
                /\ ide_state' = o.ide_state
                /\ execution' = o.execution
                /\ driver_program' = o.program
                /\ pc' = Continued(o)
                /\ last' = [op |-> "handle_key", event |-> event, before |-> Held,
                            result |-> o.result, step |-> o.step]
          /\ puts' = Edited(event)
    /\ UNCHANGED <<text, run_entry, run_steps, run_result>>

\* the tick time has elapsed and handle_tick runs
Tick ==
    /\ pc = "ide"
    /\ ide_state.paused \/ execution.instruction_count < MaxIdeSteps
    /\ \E o \in HandleTick(ide_state, execution, driver_program) :
          /\ ide_state' = o.ide_state
          /\ execution' = o.execution
          /\ driver_program' = o.program
          /\ pc' = Continued(o)
          /\ last' = [op |-> "handle_tick", event |-> [code |-> "Tick", c |-> 0],
                      before |-> Held, result |-> o.result, step |-> o.step]
    /\ UNCHANGED <<text, run_entry, run_steps, run_result, puts>>

KeyEvent == KeyEventOf(Events, MinIps)

IDENext == KeyEvent \/ Tick

SpecIDE == IDEInit /\ [][IDENext]_vars

----------------------------------------------------------------------------
(* What the last handler did, for the properties below *)

\* the last operation was a handler of the IDE
Handled == last.op \in {"handle_key", "handle_tick"}

\* the last operation was handle_key on the character c
Typed(c) == last.op = "handle_key" /\ last.event = [code |-> "Char", c |-> c]

\* the engine as ExecutionState::new makes it on a program, with empty output
InitialRunState(e) ==
    /\ e.pointer = [position |-> <<0, 0>>, direction |-> "Right"]
    /\ e.stack = <<>>
    /\ e.instruction_count = 0
    /\ ~e.terminated
    /\ e.output = <<>>

----------------------------------------------------------------------------
(* C36 *)

\* C36: whenever editing is true, paused is true, the engine is in its
\* initial run state (pointer (0,0) heading Right, empty stack, instruction
\* counter 0, not terminated, empty output) and the engine's program equals
\* the master program; no handler steps the engine while editing is true.
C36_EditingInvariant ==
    /\ ide_state.editing =>
          /\ ide_state.paused
          /\ InitialRunState(execution)
          /\ execution.program = driver_program
    /\ (Handled /\ last.before.ide_state.editing) => last.step = None

\* 'i' was typed while the engine ran, five steps into the program with
\* output written and the cell (0, 0) overwritten
C36_Witness ==
    /\ Typed(105)
    /\ ide_state.editing
    /\ ~last.before.ide_state.editing
    /\ ~last.before.ide_state.paused
    /\ last.before.execution.instruction_count = 5
    /\ last.before.execution.output # <<>>
    /\ last.before.execution.program # driver_program
    /\ InitialRunState(execution)

----------------------------------------------------------------------------
(* C37 *)

\* the last handler made a step() that returned an error
StepFailed ==
    /\ Handled
    /\ last.step.kind = "Some"
    /\ last.step.value \notin {Ok, Panic}

\* C37: when a step() made by a tick or by the key 't' returns an error,
\* afterwards the IDE is paused, the error is stored in the IDE state, and the
\* engine is restarted from scratch: its run state is reset to the initial
\* values, its program is the master program (what 'p' wrote is discarded) and
\* its output is empty.
C37_StepErrorRestarts ==
    /\ StepFailed =>
          /\ last.op = "handle_tick" \/ Typed(116)
          /\ ide_state.paused
          /\ ide_state.error = Some(last.step.value)
          /\ InitialRunState(execution)
          /\ ~execution.string_mode
          /\ execution.program = driver_program
          /\ driver_program = last.before.program
    /\ (Handled /\ ~StepFailed) => ide_state.error = last.before.ide_state.error

\* a tick stepped onto the z at (5, 0) with output written and the cell
\* (0, 0) of the engine's program overwritten by 'p'
C37_Witness ==
    /\ StepFailed
    /\ last.op = "handle_tick"
    /\ last.step.value = UnrecognizedInstruction(<<5, 0>>, 122)
    /\ ~last.before.ide_state.paused
    /\ last.before.execution.output # <<>>
    /\ last.before.execution.program # last.before.program
    /\ last.before.execution.program[<<0, 0>>] = 0
    /\ execution.program[<<0, 0>>] = 49

----------------------------------------------------------------------------
(* C38 *)

\* the last operation restarted the engine or edited the program: 'r'
\* outside editing mode, 'i' outside editing mode, a failed step, or a
\* character typed in editing mode
RestartedOrEdited ==
    \/ Typed(114) /\ ~last.before.ide_state.editing
    \/ Typed(105) /\ ~last.before.ide_state.editing
    \/ StepFailed
    \/ last.op = "handle_key" /\ last.event.code = "Char" /\ last.before.ide_state.editing

\* C38: a handler changes the master program only when it handles a character
\* key in editing mode, so no step of the engine, a 'p' included, changes it;
\* and right after a restart or an edit the engine's program equals the master
\* program.
C38_MasterIsolated ==
    /\ (Handled /\ driver_program # last.before.program) =>
          /\ last.op = "handle_key"
          /\ last.event.code = "Char"
          /\ last.before.ide_state.editing
          /\ last.step = None
    /\ (Handled /\ last.step # None) => driver_program = last.before.program
    /\ RestartedOrEdited => execution.program = driver_program

\* the key 't' stepped the 'p' at (4, 0): the engine's cell (0, 0) is
\* overwritten, the master program is as it was
C38_Witness ==
    /\ Typed(116)
    /\ last.step = Some(Ok)
    /\ last.before.execution.pointer.position = <<4, 0>>
    /\ last.before.execution.program = driver_program
    /\ execution.program # driver_program
    /\ execution.program[<<0, 0>>] = 0
    /\ driver_program = FromStr(text)

----------------------------------------------------------------------------
(* C40 *)

\* the last operation was handle_key on a character in editing mode
TypedWhileEditing ==
    /\ last.op = "handle_key"
    /\ last.event.code = "Char"
    /\ last.before.ide_state.editing

\* C40: in editing mode a character key writes the character into the master
\* program at view_center and so into the engine's program, and is no
\* command: handle_key does not quit, nothing is restarted or stepped, and
\* the IDE state (paused, following, instructions_per_second, editing) is
\* as before; only Esc leaves editing mode.
C40_EditingCaptures ==
    /\ TypedWhileEditing =>
          /\ driver_program =
                Set(last.before.program, last.before.ide_state.view_center, last.event.c)
          /\ Get(driver_program, ide_state.view_center) = last.event.c
          /\ execution.program = driver_program
          /\ last.result = "Continue"
          /\ pc = "ide"
          /\ last.step = None
          /\ execution = [last.before.execution EXCEPT !.program = driver_program]
          /\ ide_state = last.before.ide_state
    /\ (Handled /\ last.before.ide_state.editing /\ ~ide_state.editing) =>
          last.op = "handle_key" /\ last.event.code = "Esc"

\* 'q' was typed in editing mode over the 1 at (0, 0), and the IDE goes on
C40_Witness ==
    /\ TypedWhileEditing
    /\ last.event.c = 113
    /\ last.before.ide_state.view_center = <<0, 0>>
    /\ Get(last.before.program, <<0, 0>>) = 49
    /\ Get(driver_program, <<0, 0>>) = 113
    /\ ide_state.editing
    /\ pc = "ide"

----------------------------------------------------------------------------
(* C39 *)
(* Scenario: the IDE with the keys that change the speed, the keys that    *)
(* enter and leave editing mode, the space that starts the engine, and     *)
(* ticks                                                                   *)

\* + - i space, and Esc
SpeedEvents ==
    {[code |-> "Char", c |-> c] : c \in {43, 45, 105, 32}} \cup {[code |-> "Esc", c |-> 0]}

\* poll() reports one of these events and handle_key handles it
SpeedKeyEvent == KeyEventOf(SpeedEvents, 0)

SpeedNext == SpeedKeyEvent \/ Tick

SpecSpeed == IDEInit /\ [][SpeedNext]_vars

\* the last operation was handle_key on the character c outside editing mode
Commanded(c) == Typed(c) /\ ~last.before.ide_state.editing

\* C39: instructions_per_second is at least 1 after every sequence of '+' and
\* '-' keys: a '+' adds 1, a '-' subtracts 1 above 1 and leaves 1 at 1, and
\* the subtraction never underflows; so the tick period is finite and
\* positive.
C39_SpeedAtLeastOne ==
    /\ ide_state.instructions_per_second >= 1
    /\ pc # "panicked"
    /\ Commanded(43) =>
          ide_state.instructions_per_second =
             last.before.ide_state.instructions_per_second + 1
    /\ Commanded(45) =>
          ide_state.instructions_per_second =
             IF last.before.ide_state.instructions_per_second = 1
             THEN 1
             ELSE last.before.ide_state.instructions_per_second - 1
    /\ (Handled /\ ~Commanded(43) /\ ~Commanded(45)) =>
          ide_state.instructions_per_second =
             last.before.ide_state.instructions_per_second
    /\ TickTime(ide_state).kind = "Some"
    /\ TickTime(ide_state).value > 0

\* '-' was typed at 1 instruction per second: the tick time stays one second
C39_Witness ==
    /\ Commanded(45)
    /\ last.before.ide_state.instructions_per_second = 1
    /\ ide_state.instructions_per_second = 1
    /\ TickTime(ide_state) = Some(1000000000)

====
